---- MODULE Spec2Model ----
(***************************************************************************)
(* A model of jmespath.rs: the twin-stack Pratt parser of src/src/parser.rs *)
(* and the function registry and signature validator of                    *)
(* src/src/functions.rs.                                                    *)
(*                                                                         *)
(* Spec     : one run of Parser::parse on a token stream.                   *)
(* RegSpec  : a registry under register / deregister / evaluate.            *)
(***************************************************************************)
EXTENDS Integers, Sequences, FiniteSets, TLC

VARIABLES
    toks,            \* the non-Eof tokens the lexer yields for the expression
    stream,          \* Parser.stream: index of the next token stream.next() yields
    token,           \* the local `token` of Parser::expr
    output_stack,    \* Parser.output_stack
    operator_stack,  \* Parser.operator_stack
    state_stack,     \* Parser.state_stack
    pc,              \* position in Parser::parse / Parser::expr
    result,          \* what parse returned (or that it aborted)
    functions,       \* FnRegistry.functions: name -> function (or NoFn)
    call,            \* the registry call being answered (NoCall between calls)
    inserted         \* per object argument of the call: its entries in the order
                     \* they were inserted when the object was built

parserVars == <<toks, stream, token, output_stack, operator_stack, state_stack, pc, result>>
regVars == <<functions, call>>
vars == <<toks, stream, token, output_stack, operator_stack, state_stack, pc, result,
          functions, call, inserted>>

(***************************************************************************)
(* Bounds                                                                  *)
(***************************************************************************)
\* longest token stream enumerated exhaustively over the full alphabet
MaxLen == 3
\* longest argument list of a registry call, over FewValues
MaxArgs == 3
\* longest argument list of a registry call, over all of Values
MaxFullArgs == 2

Last(s) == s[Len(s)]
Front(s) == SubSeq(s, 1, Len(s) - 1)

(***************************************************************************)
(* Tokens (lexer::Token).  A token is a record [k, v]: k its kind, v its    *)
(* payload as a one-element tuple (<<>> for the kinds without payload).     *)
(***************************************************************************)
Tok(k) == [k |-> k, v |-> <<>>]
TokV(k, v) == [k |-> k, v |-> <<v>>]
Eof == Tok("Eof")

Comparators == {"Eq", "Ne", "Lt", "Lte", "Gt", "Gte"}

\* Token::lbp lives in lexer.rs.  The values are those of spec 4.1 (`.` and
\* `[` at 45 and above, `*` and the filter projection 20, `&&` 3) except
\* where the parser's own tests fix the order: `|` below the comparators
\* below `||` (test_parse_or_and_pipe_with_precedence, test_comparator), `(`
\* above 0 (test_parse_empty_functions) and `|`, `[]` below 10
\* (projection_rhs, test_parse_nud_wildcard_values_with_no_rhs).
lbp(t) ==
    CASE t.k = "Pipe" -> 1
      [] t.k \in Comparators -> 2
      [] t.k = "And" -> 3
      [] t.k = "Or" -> 5
      [] t.k = "Flatten" -> 6
      [] t.k = "Star" -> 20
      [] t.k = "Filter" -> 20
      [] t.k = "Dot" -> 45
      [] t.k = "Lbrace" -> 50
      [] t.k = "Lbracket" -> 55
      [] t.k = "Lparen" -> 60
      [] OTHER -> 0

\* The token the stream yields at index i: past the end of the expression the
\* lexer yields Eof and then nothing, which Parser::advance also reads as Eof.
TokAt(i) == IF i <= Len(toks) THEN toks[i] ELSE Eof

(***************************************************************************)
(* AST nodes (ast::Ast) as tagged tuples.                                  *)
(***************************************************************************)
Identifier(s) == <<"Identifier", s>>
Literal(s) == <<"Literal", s>>
CurrentNode == <<"CurrentNode">>
Index(n) == <<"Index", n>>
Subexpr(l, r) == <<"Subexpr", l, r>>
Projection(l, r) == <<"Projection", l, r>>
ObjectValues(c) == <<"ObjectValues", c>>
Flatten(c) == <<"Flatten", c>>
Slice(a, b, c) == <<"Slice", a, b, c>>
Or(l, r) == <<"Or", l, r>>
And(l, r) == <<"And", l, r>>
Not(c) == <<"Not", c>>
Comparison(op, l, r) == <<"Comparison", op, l, r>>
MultiList(args) == <<"MultiList", args>>
Function(name, args) == <<"Function", name, args>>
Expref(c) == <<"Expref", c>>
\* pairs is a sequence of <<key, child>>
MultiHash(pairs) == <<"MultiHash", pairs>>

(***************************************************************************)
(* Operators of the operator stack (enum Operator) and parse states.       *)
(***************************************************************************)
OpBasic(k) == [op |-> "Basic", tok |-> k]
OpFunction(name, args) == [op |-> "Function", name |-> name, args |-> args]
OpMultiList(args) == [op |-> "MultiList", args |-> args]
OpArrayProjection == [op |-> "ArrayProjection"]
OpSliceProjection(b, start, stop, step) ==
    [op |-> "SliceProjection", bin |-> b, start |-> start, stop |-> stop, step |-> step]

StNud(rbp) == [s |-> "Nud", rbp |-> rbp]
StLed(rbp) == [s |-> "Led", rbp |-> rbp]

is_right_associative(o) ==
    \/ o.op = "Basic" /\ o.tok \in {"Star", "Filter"}
    \/ o.op = "ArrayProjection"
    \/ o.op = "SliceProjection"

precedence(o) ==
    CASE o.op = "Basic" -> lbp(Tok(o.tok))
      [] o.op = "Function" -> 0
      [] o.op = "ArrayProjection" -> lbp(Tok("Star"))
      [] o.op = "SliceProjection" -> lbp(Tok("Star"))
      [] o.op = "MultiList" -> lbp(Tok("Lparen"))

\* a faulty has_lower_precedence: every operator compares as the
\* right-associative ones do
has_lower_precedence_strict(self, o) == precedence(self) < precedence(o)

has_lower_precedence(self, o) ==
    IF is_right_associative(self)
    THEN precedence(self) < precedence(o)
    ELSE precedence(self) <= precedence(o)

is_binary(o) ==
    CASE o.op = "Basic" /\ o.tok \in {"Ampersand", "Not"} -> FALSE
      [] o.op = "SliceProjection" -> o.bin
      [] OTHER -> TRUE

closes(o, k) ==
    \/ o.op = "Basic" /\ o.tok = "Lparen" /\ k = "Rparen"
    \/ o.op = "Basic" /\ o.tok = "Lbrace" /\ k = "Rbrace"
    \/ o.op = "Function" /\ k = "Rparen"
    \/ o.op = "MultiList" /\ k = "Rbracket"

supports_comma(o) == o.op \in {"MultiList", "Function"}

(***************************************************************************)
(* The parser's methods as operators on a parser record                    *)
(*   p = [i, out, ops, st, tok, res, msg]                                   *)
(* i, out, ops, st are stream / output_stack / operator_stack /            *)
(* state_stack, tok is the method's token argument on entry and the token  *)
(* it returns (ParseStep's Ok(token)) on exit, res is "ok", "err" (the      *)
(* method returned Err(ParseError), msg its message) or "panic" (an         *)
(* unwrap() of None or panic!() aborted the thread).                        *)
(***************************************************************************)
Err(p, m) == [p EXCEPT !.res = "err", !.msg = m]
Panic(p, m) == [p EXCEPT !.res = "panic", !.msg = m]
Push(p, ast) == [p EXCEPT !.out = Append(@, ast)]

\* Parser::advance
advance(p) ==
    [p EXCEPT !.tok = TokAt(p.i),
              !.i = IF p.i <= Len(toks) THEN p.i + 1 ELSE p.i]

\* Parser::pop_basic_binary
pop_basic_binary(p, k, lhs, rhs) ==
    CASE k = "Dot" -> Push(p, Subexpr(lhs, rhs))
      [] k = "Or" -> Push(p, Or(lhs, rhs))
      [] k = "Pipe" -> Push(p, Subexpr(lhs, rhs))
      [] k = "Star" -> Push(p, Projection(ObjectValues(lhs), rhs))
      [] k = "Flatten" -> Push(p, Projection(Flatten(lhs), rhs))
      [] k \in Comparators -> Push(p, Comparison(k, lhs, rhs))
      [] OTHER -> Err(p, "Unexpected binary operator")

\* Parser::pop_token; the token argument is returned unchanged
pop_token(p) ==
    IF p.ops = <<>> THEN Panic(p, "operator_stack.pop().unwrap()")
    ELSE
      LET operator == Last(p.ops)
          p1 == [p EXCEPT !.ops = Front(@)]
      IN  IF is_binary(operator)
          THEN IF Len(p1.out) < 2
               THEN Panic([p1 EXCEPT !.out = <<>>], "output_stack.pop().unwrap()")
               ELSE
                 LET rhs == p1.out[Len(p1.out)]
                     lhs == p1.out[Len(p1.out) - 1]
                     p2 == [p1 EXCEPT !.out = SubSeq(@, 1, Len(@) - 2)]
                 IN  CASE operator.op = "Basic" ->
                            pop_basic_binary(p2, operator.tok, lhs, rhs)
                       [] operator.op = "ArrayProjection" ->
                            Push(p2, Projection(lhs, rhs))
                       [] operator.op = "Function" -> Panic(p2, "panic!()")
                       [] operator.op = "SliceProjection" ->
                            Push(p2, Subexpr(lhs,
                                Projection(Slice(operator.start, operator.stop,
                                                 operator.step), rhs)))
                       [] OTHER -> Err(p2, "Unexpected binary operator")
          ELSE IF Len(p1.out) < 1
               THEN Panic(p1, "output_stack.pop().unwrap()")
               ELSE
                 LET node == Last(p1.out)
                     p2 == [p1 EXCEPT !.out = Front(@)]
                 IN  CASE operator.op = "Basic" /\ operator.tok = "Ampersand" ->
                            Push(p2, Expref(node))
                       [] operator.op = "SliceProjection" ->
                            Push(p2, Projection(Slice(operator.start, operator.stop,
                                                      operator.step), node))
                       [] OTHER -> Err(p2, "Unexpected unary operator")

\* Parser::is_last_gt
\* a faulty is_last_gt: every pending operator is popped, whatever its
\* precedence
is_last_gt_any(p, o) == p.ops # <<>>

is_last_gt(p, o) == p.ops # <<>> /\ has_lower_precedence(o, Last(p.ops))

\* Parser::is_last_closing
is_last_closing(p, k) == p.ops # <<>> /\ closes(Last(p.ops), k)

\* Parser::does_last_support_comma
does_last_support_comma(p) == p.ops # <<>> /\ supports_comma(Last(p.ops))

\* the while loop of Parser::operator
RECURSIVE pop_while_gt(_, _)
pop_while_gt(p, o) ==
    IF p.res = "ok" /\ is_last_gt(p, o) THEN pop_while_gt(pop_token(p), o) ELSE p

\* Parser::operator
operator(p, o) ==
    LET p1 == pop_while_gt([p EXCEPT !.st = Append(@, StNud(precedence(o)))], o)
    IN  IF p1.res # "ok" THEN p1 ELSE [p1 EXCEPT !.ops = Append(@, o)]

\* Parser::parse_dot; p.tok is the "." on entry
parse_dot(p, parent_operator) ==
    LET p1 == advance(p)
    IN  CASE p1.tok.k = "Lbracket" ->
               LET p2 == operator(advance(p1), parent_operator)
               IN  IF p2.res # "ok" THEN p2 ELSE operator(p2, OpMultiList(<<>>))
          [] p1.tok.k \in {"Identifier", "Star", "Lbrace", "Ampersand", "Filter"} ->
               operator(p1, parent_operator)
          [] OTHER -> Err(p1, "Expected an identifier, '*', '{', '[', '@', or '[?'")

\* Parser::projection_rhs; p.tok is its token argument
projection_rhs(p, parent_operator) ==
    CASE p.tok.k = "Dot" -> parse_dot(p, parent_operator)
      [] p.tok.k \in {"Lbracket", "Filter"} -> operator(p, parent_operator)
      [] p.tok.k \notin {"Dot", "Lbracket", "Filter"} /\ lbp(p.tok) < 10 ->
           operator(Push(p, CurrentNode), parent_operator)
      [] OTHER -> Err(p, "Unexpected token")

\* Option<i32>: None is <<>>, Some(n) is <<n>>
None == <<>>
Some(n) == <<n>>

\* the loop of Parser::parse_slice: p.tok is current_token, pos the part being
\* read, parts the three parts read so far; returns [p, parts]
RECURSIVE slice_loop(_, _, _)
slice_loop(p, pos, parts) ==
    CASE p.tok.k = "Rbracket" -> [p |-> p, parts |-> parts]
      [] p.tok.k = "Colon" /\ pos = 2 ->
           [p |-> Err(p, "Found too many colons in slice expression"), parts |-> parts]
      [] p.tok.k = "Colon" /\ pos # 2 -> slice_loop(advance(p), pos + 1, parts)
      [] p.tok.k = "Number" ->
           LET p1 == advance(p)
               parts1 == [parts EXCEPT ![pos + 1] = Some(p.tok.v[1])]
           IN  IF p1.tok.k = "Number"
               THEN [p |-> Err(p1, "Expected ':', or ']'"), parts |-> parts1]
               ELSE slice_loop(p1, pos, parts1)
      [] OTHER -> [p |-> Err(p, "Expected number, ':', or ']'"), parts |-> parts]

\* a faulty parse_slice: the parts go into the operator as start, step, stop
parse_slice_step_before_stop(p, bin) ==
    LET r == slice_loop(p, 0, <<None, None, None>>)
    IN  IF r.p.res # "ok" THEN r.p
        ELSE projection_rhs(advance(r.p),
                 OpSliceProjection(bin, r.parts[1], r.parts[3], r.parts[2]))

\* Parser::parse_slice
parse_slice(p, bin) ==
    LET r == slice_loop(p, 0, <<None, None, None>>)
    IN  IF r.p.res # "ok" THEN r.p
        ELSE projection_rhs(advance(r.p),
                 OpSliceProjection(bin, r.parts[1], r.parts[2], r.parts[3]))

\* Parser::parse_lbracket; p.tok is the "[" on entry
parse_lbracket(p, is_nud) ==
    LET p1 == advance(p)
        peek == TokAt(p1.i)
    IN  CASE peek.k = "Rbracket" ->
               ( CASE p1.tok.k = "Number" ->
                        IF is_nud
                        THEN advance(advance(Push(p1, Index(p1.tok.v[1]))))
                        ELSE IF p1.out = <<>>
                             THEN Panic(p1, "output_stack.pop().unwrap()")
                             ELSE advance(advance(
                                    [p1 EXCEPT !.out = Append(Front(@),
                                        Subexpr(Last(p1.out), Index(p1.tok.v[1])))]))
                   [] p1.tok.k = "Star" ->
                        projection_rhs(
                            advance(advance(IF is_nud THEN Push(p1, CurrentNode) ELSE p1)),
                            OpArrayProjection)
                   [] p1.tok.k = "Colon" -> parse_slice(p1, ~is_nud)
                   [] OTHER -> Err(p1, "Expected number, ':', or '*'") )
          [] peek.k \in {"Number", "Colon"} -> parse_slice(p1, ~is_nud)
          [] OTHER -> operator(p1, OpMultiList(<<>>))

\* Parser::open_function
open_function(p, fn_name) ==
    LET p1 == advance(p)
    IN  IF p1.tok.k = "Rparen"
        THEN advance(Push(p1, Function(fn_name, <<>>)))
        ELSE operator(p1, OpFunction(fn_name, <<>>))

\* Parser::close_paren
RECURSIVE close_paren(_)
close_paren(p) ==
    IF p.ops = <<>> THEN Err(p, "Unclosed parenthesis")
    ELSE IF is_last_closing(p, "Rparen")
    THEN LET o == Last(p.ops)
             p1 == [p EXCEPT !.ops = Front(@)]
         IN  IF o.op = "Function"
             THEN IF p1.out = <<>>
                  THEN Panic(p1, "output_stack.pop().unwrap()")
                  ELSE advance([p1 EXCEPT !.out = Append(Front(@),
                                   Function(o.name, Append(o.args, Last(p1.out))))])
             ELSE Err(p1, "Unclosed parenthesis")
    ELSE LET p1 == pop_token(p)
         IN  IF p1.res # "ok" THEN p1 ELSE close_paren(p1)

\* Parser::close_multi_list
RECURSIVE close_multi_list(_)
close_multi_list(p) ==
    IF p.ops = <<>> THEN Err(p, "Unclosed ]")
    ELSE IF is_last_closing(p, "Rbracket")
    THEN LET o == Last(p.ops)
             p1 == [p EXCEPT !.ops = Front(@)]
         IN  IF o.op = "MultiList"
             THEN IF p1.out = <<>>
                  THEN Panic(p1, "output_stack.pop().unwrap()")
                  ELSE advance([p1 EXCEPT !.out = Append(Front(@),
                                   MultiList(Append(o.args, Last(p1.out))))])
             ELSE Err(p1, "Unclosed ]")
    ELSE LET p1 == pop_token(p)
         IN  IF p1.res # "ok" THEN p1 ELSE close_multi_list(p1)

\* Parser::parse_comma: the body of its while loop returns or breaks in its
\* first iteration
parse_comma(p) ==
    IF p.ops = <<>> THEN Err(p, "Misplaced comma")
    ELSE
      LET p1 == IF ~does_last_support_comma(p) THEN pop_token(p) ELSE p
      IN  IF p1.res # "ok" THEN p1
          ELSE IF p1.ops = <<>> THEN Panic(p1, "operator_stack.pop().unwrap()")
          ELSE
            LET o == Last(p1.ops)
                p2 == [p1 EXCEPT !.ops = Front(@)]
            IN  IF o.op \in {"Function", "MultiList"}
                THEN IF p2.out = <<>>
                     THEN Panic(p2, "output_stack.pop().unwrap()")
                     ELSE advance([p2 EXCEPT
                            !.out = Front(@),
                            !.ops = Append(@, [o EXCEPT !.args = Append(@, Last(p2.out))])])
                ELSE Err(p2, "Misplaced comma")

\* Parser::check_enumerated_tokens; p.tok is current_token
check_enumerated_tokens(p) ==
    CASE p.tok.k = "Rparen" -> close_paren(p)
      [] p.tok.k = "Rbracket" -> close_multi_list(p)
      [] p.tok.k = "Comma" -> parse_comma([p EXCEPT !.st = Append(@, StNud(0))])
      [] OTHER -> p

\* Parser::nud; p.tok is the token
nud(p) ==
    CASE p.tok.k = "Identifier" -> advance(Push(p, Identifier(p.tok.v[1])))
      [] p.tok.k = "Literal" -> advance(Push(p, Literal(p.tok.v[1])))
      [] p.tok.k = "QuotedIdentifier" ->
           LET p1 == advance(p)
           IN  IF p1.tok.k = "Lparen"
               THEN Err(p1, "Quoted strings can't be function names")
               ELSE Push(p1, Identifier(p.tok.v[1]))
      [] p.tok.k = "At" -> advance(Push(p, CurrentNode))
      [] p.tok.k \in {"Star", "Flatten", "Filter"} ->
           projection_rhs(advance(Push(p, CurrentNode)), OpBasic(p.tok.k))
      [] p.tok.k = "Lbrace" -> operator(advance(p), OpMultiList(<<>>))
      [] p.tok.k = "Ampersand" -> operator(advance(p), OpBasic("Ampersand"))
      [] p.tok.k = "Lbracket" -> parse_lbracket(p, TRUE)
      [] OTHER -> Err(p, "Unexpected nud token")

\* Parser::led; p.tok is the token
led(p) ==
    CASE p.tok.k = "Dot" ->
           IF TokAt(p.i).k = "Star"
           THEN projection_rhs(advance(advance(p)), OpBasic("Star"))
           ELSE parse_dot(p, OpBasic("Dot"))
      [] p.tok.k = "Flatten" -> projection_rhs(advance(p), OpBasic("Flatten"))
      [] p.tok.k = "Lbracket" -> parse_lbracket(p, FALSE)
      [] p.tok.k \in {"Or", "Pipe"} \cup Comparators ->
           operator(advance(p), OpBasic(p.tok.k))
      [] p.tok.k = "Lparen" ->
           IF p.out # <<>> /\ Last(p.out)[1] = "Identifier"
           THEN open_function([p EXCEPT !.out = Front(@)], Last(p.out)[2])
           ELSE Err([p EXCEPT !.out = IF @ = <<>> THEN @ ELSE Front(@)],
                    "Unexpected parenthesis")
      [] OTHER -> Err(p, "Unexpected led token")

(***************************************************************************)
(* Token streams parsed.                                                    *)
(***************************************************************************)
PlainKinds ==
    {"Dot", "Star", "Flatten", "Filter", "Ampersand", "Not", "Or", "And", "Pipe",
     "Lparen", "Rparen", "Lbracket", "Rbracket", "Lbrace", "Rbrace", "Colon", "Comma",
     "At", "Unknown"} \cup Comparators

Alphabet ==
    {Tok(k) : k \in PlainKinds}
    \cup {TokV("Identifier", "a"), TokV("Identifier", "b"), TokV("QuotedIdentifier", "q"),
          TokV("Literal", "l"), TokV("Number", 0), TokV("Number", 1)}

SeqsUpTo(S, n) == UNION {[1..m -> S] : m \in 0..n}

Id(s) == TokV("Identifier", s)
Num(n) == TokV("Number", n)

\* the expressions of the parser's own tests (src/src/parser.rs, mod test)
TestExprs ==
    { <<Id("foo"), Tok("Dot"), Id("bar"), Tok("Dot"), Id("baz")>>,
      <<Id("foo"), Tok("Dot"), Id("baz"), Tok("Or"), Id("bar"), Tok("Dot"), Id("bam")>>,
      <<Id("foo"), Tok("Or"), Id("bar"), Tok("Pipe"), Id("baz")>>,
      <<Id("foo"), Tok("Dot"), Id("bar"), Tok("Eq"), Id("baz"), Tok("Or"), Id("bam")>>,
      <<Id("foo"), Tok("Dot"), Tok("Star"), Tok("Dot"), Id("baz")>>,
      <<Tok("Star"), Tok("Dot"), Id("baz")>>,
      <<Tok("Star"), Tok("Pipe"), Id("baz")>>,
      <<Id("foo"), Tok("Flatten"), Tok("Dot"), Id("baz")>>,
      <<Tok("Flatten"), Tok("Dot"), Id("baz")>>,
      <<Id("foo"), Tok("Lbracket"), Tok("Star"), Tok("Rbracket"), Tok("Dot"), Id("baz")>>,
      <<Id("foo"), Tok("Lbracket"), Num(0), Tok("Rbracket")>>,
      <<Id("foo"), Tok("Lbracket"), Num(0), Tok("Rbracket"), Tok("Dot"), Id("bar")>>,
      <<Id("foo"), Tok("Dot"), Tok("Star"), Tok("Lbracket"), Num(0), Tok("Rbracket")>>,
      <<Id("foo"), Tok("Dot"), Tok("Star"), Tok("Dot"), Id("bar"),
        Tok("Lbracket"), Tok("Star"), Tok("Rbracket"),
        Tok("Lbracket"), Num(0), Tok("Rbracket"), Tok("Dot"), Id("baz"),
        Tok("Or"), Id("bam"), Tok("Pipe"), Id("boo")>>,
      <<Tok("Ampersand"), Id("foo"), Tok("Dot"), Id("bar"), Tok("Pipe"),
        Tok("Lbracket"), Num(0), Tok("Rbracket")>>,
      <<Id("foo"), Tok("Lparen"), Tok("Rparen")>>,
      <<Id("foo"), Tok("Lparen"), Id("bar"), Tok("Rparen")>>,
      <<Id("foo"), Tok("Lparen"), Id("bar"), Tok("Comma"), Id("baz"), Tok("Dot"), Id("boo"),
        Tok("Comma"), Id("bam"), Tok("Or"), Id("qux"), Tok("Rparen")>>,
      <<Id("foo"), Tok("Dot"), Tok("Lbracket"), Id("bar"), Tok("Comma"), Id("baz"),
        Tok("Rbracket")>>,
      <<Id("foo"), Tok("Lbracket"), Num(0), Tok("Colon"), Tok("Colon"), Num(-1),
        Tok("Rbracket"), Tok("Dot"), Id("bar")>>,
      <<Tok("Lbracket"), Num(0), Tok("Colon"), Tok("Colon"), Num(-1),
        Tok("Rbracket"), Tok("Dot"), Id("bar")>> }

\* the expressions of expands_multi_hash (jmespath-macros/tests/macros_test.rs)
\* and two more multi-hashes:
\*   a.{b: c}    {b: c}    a.{b: foo.bar, c: d}    {a: b, b: a}    {a: b
MultiHashExprs ==
    { <<Id("a"), Tok("Dot"), Tok("Lbrace"), Id("b"), Tok("Colon"), Id("c"), Tok("Rbrace")>>,
      <<Tok("Lbrace"), Id("b"), Tok("Colon"), Id("c"), Tok("Rbrace")>>,
      <<Id("a"), Tok("Dot"), Tok("Lbrace"), Id("b"), Tok("Colon"), Id("foo"), Tok("Dot"),
        Id("bar"), Tok("Comma"), Id("c"), Tok("Colon"), Id("d"), Tok("Rbrace")>>,
      <<Tok("Lbrace"), Id("a"), Tok("Colon"), Id("b"), Tok("Comma"),
        Id("b"), Tok("Colon"), Id("a"), Tok("Rbrace")>>,
      <<Tok("Lbrace"), Id("a"), Tok("Colon"), Id("b")>> }

\* slices with a step part:  [::s]  [1:5:s]  a[::s]  a[1:5:s]  for s in -1..1
SliceExprs ==
    UNION { { <<Tok("Lbracket"), Tok("Colon"), Tok("Colon"), Num(s), Tok("Rbracket")>>,
              <<Tok("Lbracket"), Num(1), Tok("Colon"), Num(5), Tok("Colon"), Num(s),
                Tok("Rbracket")>>,
              <<Id("a"), Tok("Lbracket"), Tok("Colon"), Tok("Colon"), Num(s),
                Tok("Rbracket")>>,
              <<Id("a"), Tok("Lbracket"), Num(1), Tok("Colon"), Num(5), Tok("Colon"), Num(s),
                Tok("Rbracket")>> } : s \in -1..1 }

\* argument expressions with zero, one and two pending binary operators, each
\* with the AST parse gives it when it stands alone:  a   a.b   a || b   a || b.c
ArgExprs ==
    { [t |-> <<Id("a")>>, ast |-> Identifier("a")],
      [t |-> <<Id("a"), Tok("Dot"), Id("b")>>,
       ast |-> Subexpr(Identifier("a"), Identifier("b"))],
      [t |-> <<Id("a"), Tok("Or"), Id("b")>>,
       ast |-> Or(Identifier("a"), Identifier("b"))],
      [t |-> <<Id("a"), Tok("Or"), Id("b"), Tok("Dot"), Id("c")>>,
       ast |-> Or(Identifier("a"), Subexpr(Identifier("b"), Identifier("c")))] }

\* one or two argument expressions, as records [t, asts]
ArgSeqs ==
    {[t |-> e.t, asts |-> <<e.ast>>] : e \in ArgExprs}
    \cup {[t |-> e.t \o <<Tok("Comma")>> \o g.t, asts |-> <<e.ast, g.ast>>] :
             e \in ArgExprs, g \in ArgExprs}

\* f(e1, ..)   [e1, ..]   a.[e1, ..]
CallOf(args) == <<Id("f"), Tok("Lparen")>> \o args.t \o <<Tok("Rparen")>>
ListOf(args) == <<Tok("Lbracket")>> \o args.t \o <<Tok("Rbracket")>>
DotListOf(args) == <<Id("a"), Tok("Dot"), Tok("Lbracket")>> \o args.t \o <<Tok("Rbracket")>>

EnumExprs ==
    {CallOf(args) : args \in ArgSeqs} \cup {ListOf(args) : args \in ArgSeqs}
    \cup {DotListOf(args) : args \in ArgSeqs}

\* a comma outside any function call or multi-list:  e1, e2
BareCommaExprs == {e.t \o <<Tok("Comma")>> \o g.t : e \in ArgExprs, g \in ArgExprs}

\* binary operators in twos:  x.y.z   x || y || z   x | y | z   x || y | z
\* x.y || z.w   for identifiers a and b
PrecedenceExprs ==
    {<<Id(x), Tok(k), Id(y), Tok(k), Id(z)>> :
        x \in {"a", "b"}, y \in {"a", "b"}, z \in {"a", "b"}, k \in {"Dot", "Or", "Pipe"}}
    \cup {<<Id(x), Tok("Or"), Id(y), Tok("Pipe"), Id(z)>> :
             x \in {"a", "b"}, y \in {"a", "b"}, z \in {"a", "b"}}
    \cup {<<Id(x), Tok("Dot"), Id(y), Tok("Or"), Id(x), Tok("Dot"), Id(y)>> :
             x \in {"a", "b"}, y \in {"a", "b"}}

\* a comparator with `||` to its right:  x.b == z || w  for identifiers a and
\* b and each of the six comparators
ComparatorExprs ==
    {<<Id(x), Tok("Dot"), Id("b"), Tok(k), Id(z), Tok("Or"), Id(w)>> :
        x \in {"a", "b"}, z \in {"a", "b"}, w \in {"a", "b"}, k \in Comparators}

\* the parts of a slice: absent, 0 or 1
SliceParts == {None, Some(0), Some(1)}
PartToks(part) == IF part = None THEN <<>> ELSE <<Num(part[1])>>

\* [start:stop] and [start:stop:step]
Bracket2(start, stop) ==
    <<Tok("Lbracket")>> \o PartToks(start) \o <<Tok("Colon")>> \o PartToks(stop)
        \o <<Tok("Rbracket")>>
Bracket3(start, stop, step) ==
    <<Tok("Lbracket")>> \o PartToks(start) \o <<Tok("Colon")>> \o PartToks(stop)
        \o <<Tok("Colon")>> \o PartToks(step) \o <<Tok("Rbracket")>>

\* a slice in prefix position or after the identifier a, followed by nothing
\* or by .b
SlicePlaces == {<<>>, <<Id("a")>>}
SliceFollowers == {<<>>, <<Tok("Dot"), Id("b")>>}

AllSliceExprs ==
    {pre \o Bracket2(start, stop) \o fol :
        pre \in SlicePlaces, fol \in SliceFollowers,
        start \in SliceParts, stop \in SliceParts}
    \cup {pre \o Bracket3(start, stop, step) \o fol :
              pre \in SlicePlaces, fol \in SliceFollowers,
              start \in SliceParts, stop \in SliceParts, step \in SliceParts}

\* brackets with a third colon:  [:::]  [0:1:0:]  [0:1:0:1]  and with a number
\* right after a number:  [0 1]  [0 1:]  [:0 1]  [::0 1]
ThreeColons ==
    { <<Tok("Lbracket"), Tok("Colon"), Tok("Colon"), Tok("Colon"), Tok("Rbracket")>>,
      <<Tok("Lbracket"), Num(0), Tok("Colon"), Num(1), Tok("Colon"), Num(0), Tok("Colon"),
        Tok("Rbracket")>>,
      <<Tok("Lbracket"), Num(0), Tok("Colon"), Num(1), Tok("Colon"), Num(0), Tok("Colon"),
        Num(1), Tok("Rbracket")>> }
TwoNumbers ==
    { <<Tok("Lbracket"), Num(0), Num(1), Tok("Rbracket")>>,
      <<Tok("Lbracket"), Num(0), Num(1), Tok("Colon"), Tok("Rbracket")>>,
      <<Tok("Lbracket"), Tok("Colon"), Num(0), Num(1), Tok("Rbracket")>>,
      <<Tok("Lbracket"), Tok("Colon"), Tok("Colon"), Num(0), Num(1), Tok("Rbracket")>> }
BadSliceExprs ==
    {pre \o t : pre \in SlicePlaces, t \in ThreeColons \cup TwoNumbers}

\* the three projection tokens, after an identifier or in prefix position:
\*   a.*   a[]   a[*]   *   []   [*]
ProjectionKinds == {"Star", "Flatten", "ArrayProjection"}

ProjectionToks(kind, prefix) ==
    CASE kind = "Star" ->
           IF prefix THEN <<Tok("Star")>> ELSE <<Id("a"), Tok("Dot"), Tok("Star")>>
      [] kind = "Flatten" ->
           IF prefix THEN <<Tok("Flatten")>> ELSE <<Id("a"), Tok("Flatten")>>
      [] kind = "ArrayProjection" ->
           (IF prefix THEN <<>> ELSE <<Id("a")>>)
               \o <<Tok("Lbracket"), Tok("Star"), Tok("Rbracket")>>

\* what follows a projection: nothing, .b, [0], | b or || b; rhs is the right
\* side the projection is to get, op the operator applied to the projection
\* as a whole
Followers ==
    { [t |-> <<>>, rhs |-> CurrentNode, op |-> "none"],
      [t |-> <<Tok("Dot"), Id("b")>>, rhs |-> Identifier("b"), op |-> "none"],
      [t |-> <<Tok("Lbracket"), Num(0), Tok("Rbracket")>>, rhs |-> Index(0), op |-> "none"],
      [t |-> <<Tok("Pipe"), Id("b")>>, rhs |-> CurrentNode, op |-> "Pipe"],
      [t |-> <<Tok("Or"), Id("b")>>, rhs |-> CurrentNode, op |-> "Or"] }

ProjectionExprs ==
    {ProjectionToks(kind, prefix) \o fol.t :
        kind \in ProjectionKinds, prefix \in BOOLEAN, fol \in Followers}

\* a projection token after an operand:  .*   []   [*]
InfixProjection(kind) == SubSeq(ProjectionToks(kind, FALSE), 2, Len(ProjectionToks(kind, FALSE)))

\* right sides made of `.` and `[...]` operators, each with its AST:
\*   .b.c   .b[0]   [0].b   .b[*]   .b[*][0].c
RightSides ==
    { [t |-> <<Tok("Dot"), Id("b"), Tok("Dot"), Id("c")>>,
       ast |-> Subexpr(Identifier("b"), Identifier("c"))],
      [t |-> <<Tok("Dot"), Id("b"), Tok("Lbracket"), Num(0), Tok("Rbracket")>>,
       ast |-> Subexpr(Identifier("b"), Index(0))],
      [t |-> <<Tok("Lbracket"), Num(0), Tok("Rbracket"), Tok("Dot"), Id("b")>>,
       ast |-> Subexpr(Index(0), Identifier("b"))],
      [t |-> <<Tok("Dot"), Id("b"), Tok("Lbracket"), Tok("Star"), Tok("Rbracket")>>,
       ast |-> Projection(Identifier("b"), CurrentNode)],
      [t |-> <<Tok("Dot"), Id("b"), Tok("Lbracket"), Tok("Star"), Tok("Rbracket"),
               Tok("Lbracket"), Num(0), Tok("Rbracket"), Tok("Dot"), Id("c")>>,
       ast |-> Projection(Identifier("b"), Subexpr(Index(0), Identifier("c")))] }

\* what ends a right side: the end of the expression, || d, | d, the closer
\* of a call and the comma of a call
Terminators == {"end", "Or", "Pipe", "closer", "comma"}

\* the expression  a <projection> <right side> <terminator>
Terminated(body, term) ==
    CASE term = "end" -> body
      [] term = "Or" -> body \o <<Tok("Or"), Id("d")>>
      [] term = "Pipe" -> body \o <<Tok("Pipe"), Id("d")>>
      [] term = "closer" -> <<Id("f"), Tok("Lparen")>> \o body \o <<Tok("Rparen")>>
      [] term = "comma" ->
           <<Id("f"), Tok("Lparen")>> \o body \o <<Tok("Comma"), Id("d"), Tok("Rparen")>>

\* two projections in a row, and a projection with a right side and a
\* terminator
ChainExprs ==
    {<<Id("a")>> \o InfixProjection(k1) \o InfixProjection(k2) :
        k1 \in ProjectionKinds, k2 \in {"Star", "ArrayProjection"}}
    \cup {Terminated(<<Id("a")>> \o InfixProjection(kind) \o rhs.t, term) :
              kind \in ProjectionKinds, rhs \in RightSides, term \in Terminators}

\* expressions that start with an identifier or @, each with the AST parse
\* gives it when it stands alone: the four of ArgExprs and
\*   @   a | b   a | b | a   a.b | a   a == b   a[0]   a.*   foo.bar | [0]
IdentifierLedExprs ==
    ArgExprs \cup
    { [t |-> <<Tok("At")>>, ast |-> CurrentNode],
      [t |-> <<Id("a"), Tok("Pipe"), Id("b")>>,
       ast |-> Subexpr(Identifier("a"), Identifier("b"))],
      [t |-> <<Id("a"), Tok("Pipe"), Id("b"), Tok("Pipe"), Id("a")>>,
       ast |-> Subexpr(Subexpr(Identifier("a"), Identifier("b")), Identifier("a"))],
      [t |-> <<Id("a"), Tok("Dot"), Id("b"), Tok("Pipe"), Id("a")>>,
       ast |-> Subexpr(Subexpr(Identifier("a"), Identifier("b")), Identifier("a"))],
      [t |-> <<Id("a"), Tok("Eq"), Id("b")>>,
       ast |-> Comparison("Eq", Identifier("a"), Identifier("b"))],
      [t |-> <<Id("a"), Tok("Lbracket"), Num(0), Tok("Rbracket")>>,
       ast |-> Subexpr(Identifier("a"), Index(0))],
      [t |-> <<Id("a"), Tok("Dot"), Tok("Star")>>,
       ast |-> Projection(ObjectValues(Identifier("a")), CurrentNode)],
      [t |-> <<Id("foo"), Tok("Dot"), Id("bar"), Tok("Pipe"),
               Tok("Lbracket"), Num(0), Tok("Rbracket")>>,
       ast |-> Subexpr(Subexpr(Identifier("foo"), Identifier("bar")), Index(0))] }

\* expressions that start with another token or are a function call with an
\* argument:   [0]   *   []   [*]   &a   f(a)
OtherExprs ==
    { [t |-> <<Tok("Lbracket"), Num(0), Tok("Rbracket")>>, ast |-> Index(0)],
      [t |-> <<Tok("Star")>>, ast |-> Projection(ObjectValues(CurrentNode), CurrentNode)],
      [t |-> <<Tok("Flatten")>>, ast |-> Projection(Flatten(CurrentNode), CurrentNode)],
      [t |-> <<Tok("Lbracket"), Tok("Star"), Tok("Rbracket")>>,
       ast |-> Projection(CurrentNode, CurrentNode)],
      [t |-> <<Tok("Ampersand"), Id("a")>>, ast |-> Expref(Identifier("a"))],
      [t |-> <<Id("f"), Tok("Lparen"), Id("a"), Tok("Rparen")>>,
       ast |-> Function("f", <<Identifier("a")>>)] }

\* e and &e for each of these expressions
ExprefExprs ==
    UNION {{e.t, <<Tok("Ampersand")>> \o e.t} : e \in IdentifierLedExprs \cup OtherExprs}

Inputs ==
    SeqsUpTo(Alphabet, MaxLen) \cup TestExprs \cup MultiHashExprs \cup SliceExprs
    \cup EnumExprs \cup BareCommaExprs \cup PrecedenceExprs \cup ComparatorExprs
    \cup ProjectionExprs \cup ExprefExprs \cup AllSliceExprs \cup BadSliceExprs
    \cup ChainExprs

(***************************************************************************)
(* Parser::parse and Parser::expr as a state machine.                       *)
(***************************************************************************)
NoResult == [kind |-> "none", ast |-> <<>>, msg |-> ""]
\* no registry call is being answered
NoCall ==
    [op |-> "none", name |-> "", args |-> <<>>, fn |-> <<>>, ret |-> <<>>,
     res |-> "", err |-> <<>>, ran |-> <<>>]

\* the parser's fields and expr's token, as the record the methods work on
Cur ==
    [i |-> stream, out |-> output_stack, ops |-> operator_stack, st |-> state_stack,
     tok |-> token, res |-> "ok", msg |-> ""]

\* store what a method left; an Err leaves parse through try!, a panic aborts
Commit(p, okpc) ==
    /\ stream' = p.i
    /\ output_stack' = p.out
    /\ operator_stack' = p.ops
    /\ state_stack' = p.st
    /\ token' = p.tok
    /\ IF p.res = "ok"
       THEN pc' = okpc /\ result' = result
       ELSE /\ pc' = "done"
            /\ result' = [kind |-> IF p.res = "err" THEN "Err" ELSE "Panic",
                          ast |-> <<>>, msg |-> p.msg]
    /\ UNCHANGED <<toks, functions, call, inserted>>

\* Parser::new followed by the call of parse
Init ==
    /\ toks \in Inputs
    /\ stream = 1
    /\ token = Eof
    /\ output_stack = <<>>
    /\ operator_stack = <<>>
    /\ state_stack = <<>>
    /\ pc = "start"
    /\ result = NoResult
    /\ functions = <<>>
    /\ call = NoCall
    /\ inserted = <<>>

\* expr: push Nud(0) and read the first token
ExprEnter ==
    /\ pc = "start"
    /\ Commit(advance([Cur EXCEPT !.st = Append(@, StNud(0))]), "loop")

\* expr's loop, state Nud(rbp)
NudStep ==
    /\ pc = "loop" /\ token.k # "Eof"
    /\ state_stack # <<>> /\ Last(state_stack).s = "Nud"
    /\ LET rbp == Last(state_stack).rbp
           p == nud([Cur EXCEPT !.st = Front(@)])
       IN  Commit(IF p.res = "ok" THEN [p EXCEPT !.st = Append(@, StLed(rbp))] ELSE p,
                  "loop")

\* expr's loop, state Led(rbp) with rbp < token.lbp()
LedStep ==
    /\ pc = "loop" /\ token.k # "Eof"
    /\ state_stack # <<>> /\ Last(state_stack).s = "Led"
    /\ Last(state_stack).rbp < lbp(token)
    /\ Commit(led(Cur), "loop")

\* expr's loop, state Led(rbp) with rbp >= token.lbp()
LedClose ==
    /\ pc = "loop" /\ token.k # "Eof"
    /\ state_stack # <<>> /\ Last(state_stack).s = "Led"
    /\ ~(Last(state_stack).rbp < lbp(token))
    /\ Commit(check_enumerated_tokens([Cur EXCEPT !.st = Front(@)]), "loop")

\* expr's loop: `None => break`
LoopBreak ==
    /\ pc = "loop" /\ token.k # "Eof" /\ state_stack = <<>>
    /\ pc' = "drain"
    /\ UNCHANGED <<toks, stream, token, output_stack, operator_stack, state_stack,
                   result, functions, call, inserted>>

\* expr's loop ends at Eof
LoopExit ==
    /\ pc = "loop" /\ token.k = "Eof"
    /\ pc' = "drain"
    /\ UNCHANGED <<toks, stream, token, output_stack, operator_stack, state_stack,
                   result, functions, call, inserted>>

\* expr: pop and process a remaining operator
DrainStep ==
    /\ pc = "drain" /\ operator_stack # <<>>
    /\ Commit(pop_token(Cur), "drain")

\* expr: the output stack must hold exactly one node
ExprReturn ==
    /\ pc = "drain" /\ operator_stack = <<>>
    /\ IF Len(output_stack) # 1
       THEN /\ pc' = "done"
            /\ result' = [kind |-> "Err", ast |-> <<>>,
                          msg |-> "Multiple values left on output stack"]
            /\ UNCHANGED output_stack
       ELSE /\ pc' = "parse"
            /\ result' = [kind |-> "expr", ast |-> output_stack[1], msg |-> ""]
            /\ output_stack' = <<>>
    /\ UNCHANGED <<toks, stream, token, operator_stack, state_stack, functions, call,
                   inserted>>

\* parse: after expr, stream.next() must be None or Eof
ParseReturn ==
    /\ pc = "parse"
    /\ stream' = IF stream <= Len(toks) THEN stream + 1 ELSE stream
    /\ pc' = "done"
    /\ result' = IF TokAt(stream).k = "Eof"
                 THEN [result EXCEPT !.kind = "Ok"]
                 ELSE [kind |-> "Err", ast |-> <<>>,
                       msg |-> "Did not reach token stream EOF"]
    /\ UNCHANGED <<toks, token, output_stack, operator_stack, state_stack,
                   functions, call, inserted>>

Next ==
    \/ ExprEnter
    \/ NudStep
    \/ LedStep
    \/ LedClose
    \/ LoopBreak
    \/ LoopExit
    \/ DrainStep
    \/ ExprReturn
    \/ ParseReturn

Spec == Init /\ [][Next]_vars

\* the token streams of the termination runs: the short streams over the
\* alphabet and the expressions with and without a leading `&`
FairInputs == SeqsUpTo(Alphabet, 2) \cup ExprefExprs

FairInit ==
    /\ toks \in FairInputs
    /\ stream = 1
    /\ token = Eof
    /\ output_stack = <<>>
    /\ operator_stack = <<>>
    /\ state_stack = <<>>
    /\ pc = "start"
    /\ result = NoResult
    /\ functions = <<>>
    /\ call = NoCall
    /\ inserted = <<>>

\* parse runs on one thread from the call to the return: a step that can be
\* taken is taken
FairSpec == FairInit /\ [][Next]_vars /\ WF_vars(Next)

(***************************************************************************)
(* Values (variable::Variable) as tagged tuples; the tag is the name the   *)
(* value's JmespathType renders to.                                         *)
(***************************************************************************)
VNull == <<"null">>
VBool(b) == <<"boolean", b>>
VNumber(n) == <<"number", n>>
VString(s) == <<"string", s>>
VArray(elems) == <<"array", elems>>
VObject(pairs) == <<"object", pairs>>
VExpref(ast) == <<"expref", ast>>

\* value.get_type().to_string() (variable.rs): the type names of spec 4.4
get_type(v) == v[1]

\* the argument values a call is made with
Values ==
    { VNull, VBool(TRUE), VNumber(1), VString("a"),
      VArray(<<>>), VArray(<<VNumber(1)>>), VArray(<<VString("a")>>),
      VArray(<<VNumber(1), VString("a")>>),
      VObject(<<>>), VExpref(Identifier("a")) }

\* the values of the longest argument lists
FewValues == {VNumber(1), VString("a"), VObject(<<>>)}

ArgLists == SeqsUpTo(Values, MaxFullArgs) \cup SeqsUpTo(FewValues, MaxArgs)

(***************************************************************************)
(* enum ArgumentType, as tagged tuples.                                     *)
(***************************************************************************)
TAny == <<"Any">>
TNull == <<"Null">>
TString == <<"String">>
TNumber == <<"Number">>
TBool == <<"Bool">>
TObject == <<"Object">>
TArray == <<"Array">>
TExpref == <<"Expref">>
TypedArray(t) == <<"TypedArray", t>>
Union(ts) == <<"Union", ts>>

\* ArgumentType::is_valid
RECURSIVE is_valid(_, _)
is_valid(t, value) ==
    CASE t[1] = "Any" -> TRUE
      [] t[1] = "Null" -> get_type(value) = "null"
      [] t[1] = "String" -> get_type(value) = "string"
      [] t[1] = "Number" -> get_type(value) = "number"
      [] t[1] = "Object" -> get_type(value) = "object"
      [] t[1] = "Bool" -> get_type(value) = "boolean"
      [] t[1] = "Expref" -> get_type(value) = "expref"
      [] t[1] = "Array" -> get_type(value) = "array"
      [] t[1] = "TypedArray" ->
           /\ get_type(value) = "array"
           /\ \A i \in 1..Len(value[2]) : is_valid(t[2], value[2][i])
      [] t[1] = "Union" -> \E i \in 1..Len(t[2]) : is_valid(t[2][i], value)

\* Vec<String>::join("|")
RECURSIVE join_bar(_)
join_bar(strs) ==
    IF strs = <<>> THEN ""
    ELSE IF Len(strs) = 1 THEN strs[1]
    ELSE strs[1] \o "|" \o join_bar(Tail(strs))

\* impl fmt::Display for ArgumentType
RECURSIVE to_string(_)
to_string(t) ==
    CASE t[1] = "Any" -> "any"
      [] t[1] = "String" -> "string"
      [] t[1] = "Number" -> "number"
      [] t[1] = "Bool" -> "boolean"
      [] t[1] = "Array" -> "array"
      [] t[1] = "Object" -> "object"
      [] t[1] = "Null" -> "null"
      [] t[1] = "Expref" -> "expref"
      [] t[1] = "TypedArray" -> "array[" \o to_string(t[2]) \o "]"
      [] t[1] = "Union" -> join_bar([i \in 1..Len(t[2]) |-> to_string(t[2][i])])

(***************************************************************************)
(* struct Signature and its validation.                                     *)
(***************************************************************************)
Signature(inputs, variadic, output) ==
    [inputs |-> inputs, variadic |-> variadic, output |-> output]

Valid == <<"Ok">>
UnknownFunction(name) == <<"UnknownFunction", name>>
NotEnoughArguments(expected, actual) == <<"NotEnoughArguments", expected, actual>>
TooManyArguments(expected, actual) == <<"TooManyArguments", expected, actual>>
InvalidType(expected, actual, position) == <<"InvalidType", expected, actual, position>>

\* a faulty validate_arity: a variadic signature demands more arguments than
\* it has inputs
validate_arity_strict_variadic(sig, actual) ==
    LET expected == Len(sig.inputs)
    IN  IF sig.variadic # None
        THEN IF actual > expected THEN Valid
             ELSE NotEnoughArguments(expected, actual)
        ELSE IF actual = expected THEN Valid
        ELSE IF actual < expected THEN NotEnoughArguments(expected, actual)
        ELSE TooManyArguments(expected, actual)

\* a faulty validate_arity: too few arguments pass
validate_arity_no_minimum(sig, actual) ==
    LET expected == Len(sig.inputs)
    IN  IF sig.variadic # None \/ actual <= expected THEN Valid
        ELSE TooManyArguments(expected, actual)

\* Signature::validate_arity
validate_arity(sig, actual) ==
    LET expected == Len(sig.inputs)
    IN  IF sig.variadic # None
        THEN IF actual >= expected THEN Valid
             ELSE NotEnoughArguments(expected, actual)
        ELSE IF actual = expected THEN Valid
        ELSE IF actual < expected THEN NotEnoughArguments(expected, actual)
        ELSE TooManyArguments(expected, actual)

\* a faulty validate_arg: positions reported from 1
validate_arg_from_one(position, value, validator) ==
    IF is_valid(validator, value) THEN Valid
    ELSE InvalidType(to_string(validator), get_type(value), position + 1)

\* Signature::validate_arg; position counts from 0
validate_arg(position, value, validator) ==
    IF is_valid(validator, value) THEN Valid
    ELSE InvalidType(to_string(validator), get_type(value), position)

\* the validator Signature::validate picks for argument k (from 0)
validator_at(sig, k) ==
    IF sig.variadic # None
    THEN IF k < Len(sig.inputs) THEN sig.inputs[k + 1] ELSE sig.variadic[1]
    ELSE sig.inputs[k + 1]

\* the loops of Signature::validate from argument k on
RECURSIVE validate_from(_, _, _)
validate_from(sig, args, k) ==
    IF k >= Len(args) THEN Valid
    ELSE LET r == validate_arg(k, args[k + 1], validator_at(sig, k))
         IN  IF r # Valid THEN r ELSE validate_from(sig, args, k + 1)

\* Signature::validate
validate(sig, args) ==
    LET r == validate_arity(sig, Len(args))
    IN  IF r # Valid THEN r ELSE validate_from(sig, args, 0)

(***************************************************************************)
(* Functions.  A function object is [id, signature]: id names its body     *)
(* (the builtin's struct, or the closure of a CustomFunction).              *)
(***************************************************************************)
array_number == TypedArray(TNumber)
array_string == TypedArray(TString)

\* the defn! lines of the 26 builtins: name -> signature
BuiltinSignature(name) ==
    CASE name = "abs" -> Signature(<<TNumber>>, None, TNumber)
      [] name = "avg" -> Signature(<<array_number>>, None, TNumber)
      [] name = "ceil" -> Signature(<<TNumber>>, None, TNumber)
      [] name = "contains" ->
           Signature(<<Union(<<TString, TArray>>), TAny>>, None, TBool)
      [] name = "ends_with" -> Signature(<<TString, TString>>, None, TBool)
      [] name = "floor" -> Signature(<<TNumber>>, None, TNumber)
      [] name = "join" -> Signature(<<TString, array_string>>, None, TString)
      [] name = "keys" -> Signature(<<TObject>>, None, TArray)
      [] name = "length" ->
           Signature(<<Union(<<TArray, TObject, TString>>)>>, None, TNumber)
      [] name = "map" -> Signature(<<TExpref, TArray>>, None, TArray)
      [] name = "max" ->
           Signature(<<Union(<<array_string, array_number>>)>>, None,
                     Union(<<TString, TNumber>>))
      [] name = "min" ->
           Signature(<<Union(<<array_string, array_number>>)>>, None,
                     Union(<<TString, TNumber>>))
      [] name = "max_by" ->
           Signature(<<TArray, TExpref>>, None, Union(<<TString, TNumber>>))
      [] name = "min_by" ->
           Signature(<<TArray, TExpref>>, None, Union(<<TString, TNumber>>))
      [] name = "merge" -> Signature(<<TObject>>, Some(TObject), TObject)
      [] name = "not_null" -> Signature(<<TAny>>, Some(TAny), TAny)
      [] name = "reverse" ->
           Signature(<<Union(<<TArray, TString>>)>>, None, Union(<<TArray, TString>>))
      [] name = "sort" ->
           Signature(<<Union(<<array_string, array_number>>)>>, None, TArray)
      [] name = "sort_by" -> Signature(<<TArray, TExpref>>, None, TArray)
      [] name = "starts_with" -> Signature(<<TString, TString>>, None, TBool)
      [] name = "sum" -> Signature(<<array_number>>, None, TNumber)
      [] name = "to_array" -> Signature(<<TAny>>, None, TArray)
      [] name = "to_number" -> Signature(<<TAny>>, None, TNumber)
      [] name = "to_string" ->
           Signature(<<Union(<<TObject, TArray, TBool, TNumber, TString, TNull>>)>>,
                     None, TString)
      [] name = "type" -> Signature(<<TAny>>, None, TString)
      [] name = "values" -> Signature(<<TObject>>, None, TArray)

BuiltinNames ==
    {"abs", "avg", "ceil", "contains", "ends_with", "floor", "join", "keys", "length",
     "map", "min", "max", "max_by", "min_by", "merge", "not_null", "reverse", "sort",
     "sort_by", "starts_with", "sum", "to_array", "to_number", "to_string", "type",
     "values"}

\* XxxFn::new(): the builtin registered under `name` by from_defaults
Builtin(name) == [id |-> name, signature |-> BuiltinSignature(name)]

\* CustomFunction::new(fn_signature, f)
CustomFunction(id, fn_signature) == [id |-> id, signature |-> fn_signature]

\* the custom functions a caller registers
CustomFunctions ==
    { CustomFunction("closure1", Signature(<<TNumber>>, Some(TString), TAny)),
      CustomFunction("closure2",
          Signature(<<array_number, Union(<<TString, TNull>>)>>, None, TAny)),
      CustomFunction("closure3", Signature(<<>>, None, TAny)) }

\* FnRegistry::new
new == [n \in {} |-> Builtin("abs")]

\* FnRegistry::from_defaults
from_defaults == [n \in BuiltinNames |-> Builtin(n)]

\* a faulty register_function: a name already bound keeps its function
register_if_absent(fns, name, f) ==
    [n \in DOMAIN fns \cup {name} |-> IF n \in DOMAIN fns THEN fns[n] ELSE f]

\* HashMap::insert, as register_function uses it
register_function(fns, name, f) ==
    [n \in DOMAIN fns \cup {name} |-> IF n = name THEN f ELSE fns[n]]

\* HashMap::remove, as deregister_function uses it: the map left
deregister_function(fns, name) == [n \in DOMAIN fns \ {name} |-> fns[n]]

\* what deregister_function returns
deregister_result(fns, name) == IF name \in DOMAIN fns THEN Some(fns[name]) ELSE None

\* a faulty Function::evaluate: the body runs on arguments of the wrong type
fn_evaluate_arity_only(f, args) ==
    LET r == validate_arity(f.signature, Len(args))
    IN  IF r # Valid
        THEN [res |-> "Err", err |-> r, ran |-> <<>>]
        ELSE [res |-> "Ok", err |-> <<>>, ran |-> <<f.id>>]

\* Function::evaluate of a builtin or of a CustomFunction: validate the
\* signature, then run the body
fn_evaluate(f, args) ==
    LET r == validate(f.signature, args)
    IN  IF r # Valid
        THEN [res |-> "Err", err |-> r, ran |-> <<>>]
        ELSE [res |-> "Ok", err |-> <<>>, ran |-> <<f.id>>]

\* a faulty FnRegistry::evaluate: an unknown name answers without an error
evaluate_unknown_is_ok(fns, name, args) ==
    IF name \in DOMAIN fns
    THEN fn_evaluate(fns[name], args)
    ELSE [res |-> "Ok", err |-> <<>>, ran |-> <<>>]

\* FnRegistry::evaluate
evaluate(fns, name, args) ==
    IF name \in DOMAIN fns
    THEN fn_evaluate(fns[name], args)
    ELSE [res |-> "Err", err |-> UnknownFunction(name), ran |-> <<>>]

(***************************************************************************)
(* A registry in use.                                                       *)
(***************************************************************************)
\* the names registered, deregistered and called
CallNames == BuiltinNames \cup {"foo"}
ChangedNames == {"abs", "foo"}
\* the function objects a caller holds
HeldFunctions == CustomFunctions \cup {Builtin("abs")}

RegInit ==
    /\ functions \in {new, from_defaults}
    /\ call = NoCall
    /\ toks = <<>>
    /\ stream = 1
    /\ token = Eof
    /\ output_stack = <<>>
    /\ operator_stack = <<>>
    /\ state_stack = <<>>
    /\ pc = "registry"
    /\ result = NoResult
    /\ inserted = <<>>

Register ==
    /\ pc = "registry" /\ call = NoCall
    /\ \E name \in ChangedNames, f \in HeldFunctions :
         /\ functions' = register_function(functions, name, f)
         /\ call' = [NoCall EXCEPT !.op = "register", !.name = name, !.fn = Some(f)]
    /\ UNCHANGED <<parserVars, inserted>>

Deregister ==
    /\ pc = "registry" /\ call = NoCall
    /\ \E name \in ChangedNames :
         /\ functions' = deregister_function(functions, name)
         /\ call' = [NoCall EXCEPT !.op = "deregister", !.name = name,
                                   !.ret = deregister_result(functions, name)]
    /\ UNCHANGED <<parserVars, inserted>>

Evaluate ==
    /\ pc = "registry" /\ call = NoCall
    /\ \E name \in CallNames, args \in ArgLists :
         LET r == evaluate(functions, name, args)
         IN  call' = [NoCall EXCEPT !.op = "evaluate", !.name = name, !.args = args,
                                    !.res = r.res, !.err = r.err, !.ran = r.ran]
    /\ UNCHANGED <<functions, parserVars, inserted>>

\* the caller takes the answer
Return ==
    /\ pc = "registry" /\ call # NoCall
    /\ call' = NoCall
    /\ UNCHANGED <<functions, parserVars, inserted>>

RegNext ==
    \/ Register
    \/ Deregister
    \/ Evaluate
    \/ Return

RegSpec == RegInit /\ [][RegNext]_vars

(***************************************************************************)
(* The bodies of the builtins.  An object is a BTreeMap<String, Rcvar>     *)
(* (MergeFn builds one and wraps it in Variable::Object): VObject holds    *)
(* its entries <<key, value>> in ascending key order, the order the map    *)
(* iterates in.                                                             *)
(***************************************************************************)
\* most object arguments of a call
MaxObjects == 2
\* longest array argument of a call
MaxElems == 3

\* the strings of the model, in the order of Ord for String
StrOrder == <<"a", "b", "c">>
str_rank(s) == CHOOSE i \in DOMAIN StrOrder : StrOrder[i] = s
str_lt(s, t) == str_rank(s) < str_rank(t)

\* BTreeMap::insert: a key already in the map gets the new value
RECURSIVE btree_insert(_, _, _)
btree_insert(m, k, v) ==
    IF m = <<>> THEN << <<k, v>> >>
    ELSE IF m[1][1] = k THEN << <<k, v>> >> \o Tail(m)
    ELSE IF str_lt(k, m[1][1]) THEN << <<k, v>> >> \o m
    ELSE <<m[1]>> \o btree_insert(Tail(m), k, v)

\* BTreeMap::extend: insert the entries one after the other
RECURSIVE btree_extend(_, _)
btree_extend(m, entries) ==
    IF entries = <<>> THEN m
    ELSE btree_extend(btree_insert(m, entries[1][1], entries[1][2]), Tail(entries))

\* what a body returns: Ok(value) or Err(reason)
OkVal(v) == [res |-> "Ok", err |-> <<>>, ret |-> Some(v)]
ErrVal(e) == [res |-> "Err", err |-> e, ret |-> None]

\* KeysFn: object.keys() as an array of strings
KeysFn(args) ==
    OkVal(VArray([i \in 1..Len(args[1][2]) |-> VString(args[1][2][i][1])]))

\* ValuesFn: map.values() as an array
ValuesFn(args) ==
    OkVal(VArray([i \in 1..Len(args[1][2]) |-> args[1][2][i][2]]))

\* the loop of MergeFn: result.extend(arg) for each arg
RECURSIVE merge_loop(_, _)
merge_loop(map, args) ==
    IF args = <<>> THEN map
    ELSE merge_loop(btree_extend(map, args[1][2]), Tail(args))

\* a faulty MergeFn: the arguments are merged from the last to the first
MergeFn_reversed(args) ==
    OkVal(VObject(merge_loop(<<>>, [i \in 1..Len(args) |-> args[Len(args) + 1 - i]])))

\* MergeFn
MergeFn(args) == OkVal(VObject(merge_loop(<<>>, args)))

\* a/b in f64 for integers a >= 0 and b >= 0: an integer when b divides a,
\* NaN for 0/0, otherwise the quotient as the fraction a/b in lowest terms.
\* A number that is not an integer is <<"number", numerator, denominator>>.
RECURSIVE gcd(_, _)
gcd(a, b) == IF b = 0 THEN a ELSE gcd(b, a % b)
NaN == <<"number", 0, 0>>
f64_div(a, b) ==
    IF b = 0 THEN NaN
    ELSE IF a % b = 0 THEN VNumber(a \div b)
    ELSE <<"number", a \div gcd(a, b), b \div gcd(a, b)>>

\* values.iter().map(|n| n.as_number().unwrap()).fold(0f64, |a, b| a + b)
RECURSIVE fold_sum(_)
fold_sum(values) == IF values = <<>> THEN 0 ELSE values[1][2] + fold_sum(Tail(values))

\* AvgFn
AvgFn(args) == OkVal(f64_div(fold_sum(args[1][2]), Len(args[1][2])))

\* Ord for Variable (variable.rs), between two numbers or two strings
var_lt(x, y) == IF x[1] = "number" THEN x[2] < y[2] ELSE str_lt(x[2], y[2])
var_gt(x, y) == var_lt(y, x)

\* BTreeMap::get
RECURSIVE btree_get(_, _)
btree_get(m, k) ==
    IF m = <<>> THEN None
    ELSE IF m[1][1] = k THEN Some(m[1][2])
    ELSE btree_get(Tail(m), k)

\* interpreter::interpret (interpreter.rs) on the nodes the expression
\* references of the model hold: @ and an identifier
interpret(v, ast) ==
    CASE ast = CurrentNode -> v
      [] ast[1] = "Identifier" ->
           IF v[1] = "object" /\ btree_get(v[2], ast[2]) # None
           THEN btree_get(v[2], ast[2])[1]
           ELSE VNull

InvalidReturnType(expected, actual, position, invocation) ==
    <<"InvalidReturnType", expected, actual, position, invocation>>

\* a faulty insertion: x goes before the elements whose key equals its own
stable_insert_before_equal(sorted, x) ==
    LET n == Cardinality({i \in DOMAIN sorted : var_lt(sorted[i][2], x[2])})
    IN  SubSeq(sorted, 1, n) \o <<x>> \o SubSeq(sorted, n + 1, Len(sorted))

\* slice::sort_by is a stable sort: into a sorted run of <<element, key>>
\* pairs, x goes behind every pair whose key is not greater than its own
stable_insert(sorted, x) ==
    LET n == Cardinality({i \in DOMAIN sorted : ~var_lt(x[2], sorted[i][2])})
    IN  SubSeq(sorted, 1, n) \o <<x>> \o SubSeq(sorted, n + 1, Len(sorted))

\* slice::sort_by on <<element, key>> pairs, by key
RECURSIVE stable_sort(_, _)
stable_sort(sorted, rest) ==
    IF rest = <<>> THEN sorted
    ELSE stable_sort(stable_insert(sorted, rest[1]), Tail(rest))

\* SortFn: values.sort()
SortFn(args) ==
    LET sorted == stable_sort(<<>>, [i \in 1..Len(args[1][2]) |->
                                        <<args[1][2][i], args[1][2][i]>>])
    IN  OkVal(VArray([i \in 1..Len(sorted) |-> sorted[i][1]]))

\* the for loop of SortByFn from element `invocation` (counted from 0) on
RECURSIVE sort_by_loop(_, _, _, _, _)
sort_by_loop(vals, ast, first_type, invocation, mapped) ==
    IF invocation >= Len(vals)
    THEN LET sorted == stable_sort(<<>>, mapped)
         IN  OkVal(VArray([i \in 1..Len(sorted) |-> sorted[i][1]]))
    ELSE LET v == vals[invocation + 1]
             mapped_value == interpret(v, ast)
         IN  IF get_type(mapped_value) # first_type
             THEN ErrVal(InvalidReturnType("expression->" \o first_type,
                                           get_type(mapped_value), 1, invocation))
             ELSE sort_by_loop(vals, ast, first_type, invocation + 1,
                               Append(mapped, <<v, mapped_value>>))

\* SortByFn
SortByFn(args) ==
    LET vals == args[1][2]
        ast == args[2][2]
    IN  IF vals = <<>> THEN OkVal(VArray(vals))
        ELSE LET first_value == interpret(vals[1], ast)
                 first_type == get_type(first_value)
             IN  IF first_type # "string" /\ first_type # "number"
                 THEN ErrVal(InvalidReturnType("expression->string|expression->number",
                                               first_type, 1, 1))
                 ELSE sort_by_loop(vals, ast, first_type, 1, << <<vals[1], first_value>> >>)

\* the for loop of min_and_max_by! from element `invocation` (counted from 0)
RECURSIVE min_and_max_by_loop(_, _, _, _, _, _)
min_and_max_by_loop(operator_, vals, ast, entered_type, invocation, candidate) ==
    IF invocation >= Len(vals) THEN OkVal(candidate[1])
    ELSE LET v == vals[invocation + 1]
             mapped == interpret(v, ast)
         IN  IF get_type(mapped) # entered_type
             THEN ErrVal(InvalidReturnType("expression->" \o entered_type,
                                           get_type(mapped), 1, invocation))
             ELSE min_and_max_by_loop(operator_, vals, ast, entered_type, invocation + 1,
                      IF (operator_ = "gt" /\ var_gt(mapped, candidate[2]))
                         \/ (operator_ = "lt" /\ var_lt(mapped, candidate[2]))
                      THEN <<v, mapped>> ELSE candidate)

\* min_and_max_by!
min_and_max_by(operator_, args) ==
    LET vals == args[1][2]
        ast == args[2][2]
    IN  IF vals = <<>> THEN OkVal(VNull)
        ELSE LET initial == interpret(vals[1], ast)
                 entered_type == get_type(initial)
             IN  IF entered_type # "string" /\ entered_type # "number"
                 THEN ErrVal(InvalidReturnType("expression->number|expression->string",
                                               entered_type, 1, 1))
                 ELSE min_and_max_by_loop(operator_, vals, ast, entered_type, 1,
                                          <<vals[1], initial>>)

\* a faulty MaxByFn: the key of the best element is returned, not the element
MaxByFn_returns_key(args) ==
    LET r == min_and_max_by("gt", args)
    IN  IF r.res = "Ok" /\ args[1][2] # <<>>
        THEN OkVal(interpret(r.ret[1], args[2][2]))
        ELSE r

\* MaxByFn and MinByFn
MaxByFn(args) == min_and_max_by("gt", args)
MinByFn(args) == min_and_max_by("lt", args)

\* strings handed to to_number: JSON texts of a number, a boolean, null, a
\* string and an array, and two strings that are not JSON
JsonTexts == {"1", "true", "null", "\"a\"", "[1]", "+1", "a"}

\* Variable::from_json (variable.rs): the value a JSON text denotes, None when
\* the string is not JSON
from_json(s) ==
    CASE s = "1" -> Some(VNumber(1))
      [] s = "true" -> Some(VBool(TRUE))
      [] s = "null" -> Some(VNull)
      [] s = "\"a\"" -> Some(VString("a"))
      [] s = "[1]" -> Some(VArray(<<VNumber(1)>>))
      [] OTHER -> None

\* ToNumberFn
ToNumberFn(args) ==
    CASE args[1][1] = "number" -> OkVal(args[1])
      [] args[1][1] = "string" ->
           LET f == from_json(args[1][2])
           IN  IF f # None THEN OkVal(f[1]) ELSE OkVal(VNull)
      [] OTHER -> OkVal(VNull)

\* as_array(), as_number(), as_string(), as_object(), as_expref()
\* (variable.rs) are Some for a value of that variant only
is_variant(v, type) == v[1] = type

\* the body of builtin `name` aborts on args: it indexes args past its end,
\* unwraps an as_xxx() that is None or reaches unreachable!()
body_aborts(name, args) ==
    CASE name \in {"abs", "to_array", "to_number", "to_string", "type"} ->
           Len(args) < 1
      [] name \in {"avg", "sum"} ->
           \/ Len(args) < 1
           \/ ~is_variant(args[1], "array")
           \/ \E i \in 1..Len(args[1][2]) : ~is_variant(args[1][2][i], "number")
      [] name \in {"ceil", "floor"} ->
           Len(args) < 1 \/ ~is_variant(args[1], "number")
      [] name = "contains" ->
           \/ Len(args) < 2
           \/ ~is_variant(args[1], "array") /\ ~is_variant(args[1], "string")
      [] name \in {"ends_with", "starts_with"} ->
           \/ Len(args) < 1
           \/ ~is_variant(args[1], "string")
           \/ Len(args) < 2
           \/ ~is_variant(args[2], "string")
      [] name = "join" ->
           \/ Len(args) < 1
           \/ ~is_variant(args[1], "string")
           \/ Len(args) < 2
           \/ ~is_variant(args[2], "array")
           \/ \E i \in 1..Len(args[2][2]) : ~is_variant(args[2][2][i], "string")
      [] name \in {"keys", "values"} ->
           Len(args) < 1 \/ ~is_variant(args[1], "object")
      [] name = "length" ->
           \/ Len(args) < 1
           \/ \A type \in {"array", "object", "string"} : ~is_variant(args[1], type)
      [] name = "map" ->
           \/ Len(args) < 1
           \/ ~is_variant(args[1], "expref")
           \/ Len(args) < 2
           \/ ~is_variant(args[2], "array")
      [] name \in {"max", "min", "sort"} ->
           Len(args) < 1 \/ ~is_variant(args[1], "array")
      [] name \in {"max_by", "min_by", "sort_by"} ->
           \/ Len(args) < 1
           \/ ~is_variant(args[1], "array")
           \/ /\ args[1][2] # <<>>
              /\ (Len(args) < 2 \/ ~is_variant(args[2], "expref"))
      [] name = "merge" ->
           \E i \in 1..Len(args) : ~is_variant(args[i], "object")
      [] name = "not_null" -> FALSE
      [] name = "reverse" ->
           \/ Len(args) < 1
           \/ ~is_variant(args[1], "array") /\ ~is_variant(args[1], "string")

\* the builtins whose return values are modelled
BodyNames ==
    {"keys", "values", "merge", "avg", "sort", "sort_by", "max_by", "min_by", "to_number"}

\* the body of builtin `name`, past its validation
body(name, args) ==
    CASE name = "keys" -> KeysFn(args)
      [] name = "values" -> ValuesFn(args)
      [] name = "merge" -> MergeFn(args)
      [] name = "avg" -> AvgFn(args)
      [] name = "sort" -> SortFn(args)
      [] name = "sort_by" -> SortByFn(args)
      [] name = "max_by" -> MaxByFn(args)
      [] name = "min_by" -> MinByFn(args)
      [] name = "to_number" -> ToNumberFn(args)

\* FnRegistry::evaluate on the default registry, with what the body does past
\* the validation: it aborts (res is "Panic"), or it returns; ret holds the
\* value returned by the bodies of BodyNames and is None for the others
builtin_evaluate(name, args) ==
    LET r == evaluate(from_defaults, name, args)
    IN  IF r.res = "Err"
        THEN [res |-> "Err", err |-> r.err, ret |-> None, ran |-> r.ran]
        ELSE IF body_aborts(name, args)
        THEN [res |-> "Panic", err |-> <<>>, ret |-> None, ran |-> r.ran]
        ELSE IF name \in BodyNames
        THEN LET b == body(name, args)
             IN  [res |-> b.res, err |-> b.err, ret |-> b.ret, ran |-> r.ran]
        ELSE [res |-> "Ok", err |-> <<>>, ret |-> None, ran |-> r.ran]

(***************************************************************************)
(* The builtins in use: calls on objects built by inserting entries, and   *)
(* calls on arrays.                                                         *)
(***************************************************************************)
Keys == {"a", "b"}
EntryValues == {VNumber(1), VNumber(2)}

\* the entries of an object in the order they are inserted, keys distinct
InsertionSeqs ==
    {es \in SeqsUpTo(Keys \X EntryValues, Cardinality(Keys)) :
        \A i \in DOMAIN es, j \in DOMAIN es : es[i][1] = es[j][1] => i = j}

\* the object left by inserting the entries into an empty map
ObjectOf(entries) == VObject(btree_extend(<<>>, entries))

\* array elements: numbers, strings, null, and objects with a field `a`
Elems ==
    { VNumber(1), VNumber(2), VString("a"), VString("b"), VNull,
      ObjectOf(<< <<"a", VNumber(1)>> >>),
      ObjectOf(<< <<"a", VNumber(1)>>, <<"b", VNumber(1)>> >>),
      ObjectOf(<< <<"a", VNumber(2)>> >>),
      ObjectOf(<< <<"a", VString("a")>> >>) }

\* expression references:  &@   &a
Exprefs == {CurrentNode, Identifier("a")}

\* the values any builtin is called with: those of Values, the empty string,
\* an array of two numbers and the strings of JsonTexts
BuiltinValues ==
    Values \cup {VString(""), VArray(<<VNumber(2), VNumber(1)>>)}
    \cup {VString(s) : s \in JsonTexts}

BuiltinArgLists == SeqsUpTo(BuiltinValues, MaxFullArgs)

FnInit ==
    /\ functions = from_defaults
    /\ call = NoCall
    /\ inserted = <<>>
    /\ toks = <<>>
    /\ stream = 1
    /\ token = Eof
    /\ output_stack = <<>>
    /\ operator_stack = <<>>
    /\ state_stack = <<>>
    /\ pc = "builtins"
    /\ result = NoResult

\* keys, values or merge on objects
CallOnObjects ==
    /\ pc = "builtins" /\ call = NoCall
    /\ \E name \in {"keys", "values", "merge"}, ins \in SeqsUpTo(InsertionSeqs, MaxObjects) :
         LET args == [i \in DOMAIN ins |-> ObjectOf(ins[i])]
             r == builtin_evaluate(name, args)
         IN  /\ call' = [NoCall EXCEPT !.op = "evaluate", !.name = name, !.args = args,
                                       !.res = r.res, !.err = r.err, !.ret = r.ret,
                                       !.ran = r.ran]
             /\ inserted' = ins
    /\ UNCHANGED <<functions, parserVars>>

\* avg or sort on an array; sort_by, max_by or min_by on an array and an
\* expression reference
CallOnArray ==
    /\ pc = "builtins" /\ call = NoCall
    /\ \E name \in {"avg", "sort", "sort_by", "max_by", "min_by"},
          elems \in SeqsUpTo(Elems, MaxElems), e \in Exprefs :
         LET args == IF name \in {"avg", "sort"}
                     THEN <<VArray(elems)>>
                     ELSE <<VArray(elems), VExpref(e)>>
             r == builtin_evaluate(name, args)
         IN  call' = [NoCall EXCEPT !.op = "evaluate", !.name = name, !.args = args,
                                    !.res = r.res, !.err = r.err, !.ret = r.ret,
                                    !.ran = r.ran]
    /\ UNCHANGED <<functions, parserVars, inserted>>

\* any builtin on any argument list; the objects among the arguments hold
\* their entries as inserted
CallBuiltin ==
    /\ pc = "builtins" /\ call = NoCall
    /\ \E name \in BuiltinNames, args \in BuiltinArgLists :
         LET r == builtin_evaluate(name, args)
             IsObject(v) == v[1] = "object"
             objects == SelectSeq(args, IsObject)
         IN  /\ call' = [NoCall EXCEPT !.op = "evaluate", !.name = name, !.args = args,
                                       !.res = r.res, !.err = r.err, !.ret = r.ret,
                                       !.ran = r.ran]
             /\ inserted' = [i \in DOMAIN objects |-> objects[i][2]]
    /\ UNCHANGED <<functions, parserVars>>

\* the caller takes the result
FnReturn ==
    /\ pc = "builtins" /\ call # NoCall
    /\ call' = NoCall
    /\ inserted' = <<>>
    /\ UNCHANGED <<functions, parserVars>>

FnNext ==
    \/ CallOnObjects
    \/ CallOnArray
    \/ CallBuiltin
    \/ FnReturn

FnSpec == FnInit /\ [][FnNext]_vars

(***************************************************************************)
(* ParseError::new: the line, the column and the rendered snippet of an    *)
(* error at byte offset pos of an expression.  An expression is a sequence *)
(* of one-byte characters, "x" or the line feed NL.                         *)
(***************************************************************************)
\* longest expression an error is located in
MaxExprLen == 5

NL == "\n"

\* the loop of str::lines: done holds the lines already closed, cur the
\* characters of the line being read; a final line feed closes the last line
\* without opening another
RECURSIVE lines_loop(_, _, _)
lines_loop(expr, done, cur) ==
    IF expr = <<>> THEN (IF cur = <<>> THEN done ELSE Append(done, cur))
    ELSE IF Head(expr) = NL THEN lines_loop(Tail(expr), Append(done, cur), <<>>)
    ELSE lines_loop(Tail(expr), done, Append(cur, Head(expr)))

\* expr.lines().collect::<Vec<&str>>()
lines(expr) == lines_loop(expr, <<>>, <<>>)

\* ParseError::inject_err_pointer
inject_err_pointer(string_buffer, col) ==
    string_buffer \o [i \in 1..col |-> " "] \o <<"^", NL>>

\* the column ParseError::new computes once buff.len() > pos
col_of(line, buff_len, pos) ==
    IF line = 0 THEN pos
    ELSE IF buff_len >= 2 + pos THEN buff_len - (2 + pos) ELSE 0

\* the for loop of ParseError::new over the lines ls still to read
RECURSIVE new_loop(_, _, _, _)
new_loop(ls, pos, line, buff) ==
    IF ls = <<>> THEN [line |-> line, col |-> 0, buff |-> buff]
    ELSE LET buff1 == buff \o ls[1] \o <<NL>>
         IN  IF Len(buff1) > pos
             THEN LET col == col_of(line, Len(buff1), pos)
                  IN  [line |-> line, col |-> col, buff |-> inject_err_pointer(buff1, col)]
             ELSE new_loop(Tail(ls), pos, line + 1, buff1)

\* ParseError::new, without the message and the hint
ParseError_new(expr, pos) == new_loop(lines(expr), pos, 0, <<>>)

Exprs == SeqsUpTo({"x", NL}, MaxExprLen)

ErrInit ==
    /\ functions = <<>>
    /\ call = NoCall
    /\ inserted = <<>>
    /\ toks = <<>>
    /\ stream = 1
    /\ token = Eof
    /\ output_stack = <<>>
    /\ operator_stack = <<>>
    /\ state_stack = <<>>
    /\ pc = "errors"
    /\ result = NoResult

\* Parser::err: an error at a byte of the expression
NewParseError ==
    /\ pc = "errors" /\ call = NoCall
    /\ \E expr \in Exprs : \E pos \in 0..(Len(expr) - 1) :
         call' = [NoCall EXCEPT !.op = "ParseError::new", !.args = <<expr, pos>>,
                                !.ret = Some(ParseError_new(expr, pos))]
    /\ UNCHANGED <<functions, parserVars, inserted>>

\* the caller takes the error
ErrReturn ==
    /\ pc = "errors" /\ call # NoCall
    /\ call' = NoCall
    /\ UNCHANGED <<functions, parserVars, inserted>>

ErrNext ==
    \/ NewParseError
    \/ ErrReturn

ErrSpec == ErrInit /\ [][ErrNext]_vars

(***************************************************************************)
(* Claims about the parser (checked under Spec).                            *)
(***************************************************************************)
Done == pc = "done"
ParsedOk(ast) == result.kind = "Ok" /\ result.ast = ast

\* C1: for every token stream parse returns Ok(AST) or Err(ParseError); no
\* input aborts the parser: no unwrap() on an empty output_stack or
\* operator_stack is executed and the panic!() arm of pop_token is never
\* reached.
C1_ParseNeverAborts == result.kind # "Panic"

\* a function call left open: an identifier, "(", then argument tokens up to
\* the end of the input, none of them the closing ")"
IsUnclosedCall(t) ==
    /\ Len(t) >= 2
    /\ t[1].k = "Identifier"
    /\ t[2].k = "Lparen"
    /\ \A i \in 3..Len(t) : t[i].k # "Rparen"

\* C2: parsing a function call whose closing ")" is missing, such as
\* `length(`, returns a ParseError.
C2_UnclosedCallIsParseError == (Done /\ IsUnclosedCall(toks)) => result.kind = "Err"

\* C3: parse returns Ok only if expression parsing stopped at the end of the
\* token stream: the token at which expr stopped is Eof, so that no token of
\* the input was left out of the returned AST; an expression followed by an
\* extra token is rejected with a ParseError.
C3_OkOnlyAtEndOfStream == (Done /\ result.kind = "Ok") => token.k = "Eof"

\* the one-token operands and their nodes
Operands ==
    {TokV("Identifier", "a"), TokV("Identifier", "b"), TokV("QuotedIdentifier", "q"),
     TokV("Literal", "l"), Tok("At")}
OperandAst(t) ==
    CASE t.k = "Identifier" -> Identifier(t.v[1])
      [] t.k = "QuotedIdentifier" -> Identifier(t.v[1])
      [] t.k = "Literal" -> Literal(t.v[1])
      [] t.k = "At" -> CurrentNode

\* the node spec 4.2.3 gives a binary operator
BinaryNode(k, l, r) ==
    CASE k = "Or" -> Or(l, r)
      [] k = "And" -> And(l, r)
      [] k \in Comparators -> Comparison(k, l, r)

\* C9: for operands a and b, `a || b` parses to Or(a, b), `a && b` parses to
\* And(a, b) and `a <op> b`, for each comparator, parses to
\* Comparison(op, a, b).
C9_BinaryOperatorsParse ==
    \A x \in Operands, y \in Operands, k \in {"Or", "And"} \cup Comparators :
        (Done /\ toks = <<x, Tok(k), y>>) =>
            ParsedOk(BinaryNode(k, OperandAst(x), OperandAst(y)))

\* the part of C9 the parser meets: `||` and the six comparators
C9_OrAndComparisonsParse ==
    \A x \in Operands, y \in Operands, k \in {"Or"} \cup Comparators :
        (Done /\ toks = <<x, Tok(k), y>>) =>
            ParsedOk(BinaryNode(k, OperandAst(x), OperandAst(y)))

\* C10: for an operand a, `&a` parses to Expref(a) and `!a` parses to Not(a).
C10_UnaryOperatorsParse ==
    \A x \in Operands :
        /\ (Done /\ toks = <<Tok("Ampersand"), x>>) => ParsedOk(Expref(OperandAst(x)))
        /\ (Done /\ toks = <<Tok("Not"), x>>) => ParsedOk(Not(OperandAst(x)))

\* the part of C10 the parser meets: `&a`
C10_ExprefParses ==
    \A x \in Operands :
        (Done /\ toks = <<Tok("Ampersand"), x>>) => ParsedOk(Expref(OperandAst(x)))

\* C11: a multi-hash `{k1: e1, ..., kn: en}`, alone or after a dot, parses to
\* a MultiHash node holding the (key, child) pairs in written order.
C11_MultiHashParses ==
    /\ (Done /\ toks = <<Tok("Lbrace"), Id("b"), Tok("Colon"), Id("c"), Tok("Rbrace")>>)
         => ParsedOk(MultiHash(<< <<"b", Identifier("c")>> >>))
    /\ (Done /\ toks = <<Id("a"), Tok("Dot"), Tok("Lbrace"), Id("b"), Tok("Colon"), Id("c"),
                          Tok("Rbrace")>>)
         => ParsedOk(Subexpr(Identifier("a"), MultiHash(<< <<"b", Identifier("c")>> >>)))
    /\ (Done /\ toks = <<Tok("Lbrace"), Id("a"), Tok("Colon"), Id("b"), Tok("Comma"),
                          Id("b"), Tok("Colon"), Id("a"), Tok("Rbrace")>>)
         => ParsedOk(MultiHash(<< <<"a", Identifier("b")>>, <<"b", Identifier("a")>> >>))
    /\ (Done /\ toks = <<Id("a"), Tok("Dot"), Tok("Lbrace"), Id("b"), Tok("Colon"),
                          Id("foo"), Tok("Dot"), Id("bar"), Tok("Comma"), Id("c"),
                          Tok("Colon"), Id("d"), Tok("Rbrace")>>)
         => ParsedOk(Subexpr(Identifier("a"),
                MultiHash(<< <<"b", Subexpr(Identifier("foo"), Identifier("bar"))>>,
                             <<"c", Identifier("d")>> >>)))

\* no multi-hash of MultiHashExprs parses at all
C11_NoMultiHashParses == (Done /\ toks \in MultiHashExprs) => result.kind # "Ok"

\* whether a node of the AST is a Slice with step Some(0)
RECURSIVE HasZeroStep(_)
HasZeroStep(ast) ==
    CASE ast[1] = "Slice" -> ast[4] = Some(0)
      [] ast[1] \in {"Subexpr", "Projection", "Or", "And"} ->
           HasZeroStep(ast[2]) \/ HasZeroStep(ast[3])
      [] ast[1] = "Comparison" -> HasZeroStep(ast[3]) \/ HasZeroStep(ast[4])
      [] ast[1] \in {"ObjectValues", "Flatten", "Not", "Expref"} -> HasZeroStep(ast[2])
      [] ast[1] = "MultiList" -> \E i \in DOMAIN ast[2] : HasZeroStep(ast[2][i])
      [] ast[1] = "Function" -> \E i \in DOMAIN ast[3] : HasZeroStep(ast[3][i])
      [] OTHER -> FALSE

\* C12: a slice whose step part is 0 is rejected with a ParseError: no AST
\* parse returns holds a Slice node with step = Some(0).
C12_NoZeroStep == (Done /\ result.kind = "Ok") => ~HasZeroStep(result.ast)

\* C18: a function call `f(e1, ..., en)` and a multi-list `[e1, ..., en]`,
\* whatever binary operators are pending in each ei, parse to
\* Function(f, [A1..An]) and MultiList([A1..An]) with Ai the AST of ei, in
\* order; `f()` parses to Function(f, []).
C18_EnumeratedArgsInOrder ==
    /\ (Done /\ toks = <<Id("f"), Tok("Lparen"), Tok("Rparen")>>)
         => ParsedOk(Function("f", <<>>))
    /\ \A args \in ArgSeqs :
         /\ (Done /\ toks = CallOf(args)) => ParsedOk(Function("f", args.asts))
         /\ (Done /\ toks = ListOf(args)) => ParsedOk(MultiList(args.asts))
         /\ (Done /\ toks = DotListOf(args))
              => ParsedOk(Subexpr(Identifier("a"), MultiList(args.asts)))

\* the part of C18 the parser meets: the closer reduces every pending
\* operator of the last argument, and a comma reduces one
C18_CloserReducesAll ==
    \A e \in ArgExprs, g \in ArgExprs :
        /\ (Done /\ toks = CallOf([t |-> e.t, asts |-> <<e.ast>>]))
             => ParsedOk(Function("f", <<e.ast>>))
        /\ (Done /\ Len(e.t) <= 3
                  /\ toks = CallOf([t |-> e.t \o <<Tok("Comma")>> \o g.t, asts |-> <<>>]))
             => ParsedOk(Function("f", <<e.ast, g.ast>>))

\* C19: a comma that is not inside a function call or a multi-list yields a
\* ParseError with message `Misplaced comma`, whatever operators are pending
\* when the comma is seen.
C19_MisplacedComma ==
    (Done /\ toks \in BareCommaExprs) =>
        (result.kind = "Err" /\ result.msg = "Misplaced comma")

C21_OrGroupsUnderComparison ==
    (Done /\ Len(toks) = 7) =>
      \A x \in {"a", "b"}, z \in {"a", "b"}, w \in {"a", "b"}, k \in Comparators :
        (toks = <<Id(x), Tok("Dot"), Id("b"), Tok(k), Id(z), Tok("Or"), Id(w)>>)
            => ParsedOk(Comparison(k, Subexpr(Identifier(x), Identifier("b")),
                                   Or(Identifier(z), Identifier(w))))

\* test_comparator's expression and a.b == a || b have been parsed to a
\* Comparison whose right side is the Or
C21_Witness ==
    /\ Done /\ result.kind = "Ok"
    /\ \/ /\ toks = <<Id("foo"), Tok("Dot"), Id("bar"), Tok("Eq"), Id("baz"), Tok("Or"),
                      Id("bam")>>
          /\ result.ast = Comparison("Eq", Subexpr(Identifier("foo"), Identifier("bar")),
                                      Or(Identifier("baz"), Identifier("bam")))
       \/ /\ toks = <<Id("a"), Tok("Dot"), Id("b"), Tok("Eq"), Id("a"), Tok("Or"), Id("b")>>
          /\ result.ast = Comparison("Eq", Subexpr(Identifier("a"), Identifier("b")),
                                      Or(Identifier("a"), Identifier("b")))

\* the node a projection token makes of its left side x and right side R
ProjectionAst(kind, x, R) ==
    CASE kind = "Star" -> Projection(ObjectValues(x), R)
      [] kind = "Flatten" -> Projection(Flatten(x), R)
      [] kind = "ArrayProjection" -> Projection(x, R)

\* the AST of a projection with a follower
ProjectionExpected(kind, prefix, fol) ==
    LET proj == ProjectionAst(kind, IF prefix THEN CurrentNode ELSE Identifier("a"),
                              fol.rhs)
    IN  CASE fol.op = "none" -> proj
          [] fol.op = "Pipe" -> Subexpr(proj, Identifier("b"))
          [] fol.op = "Or" -> Or(proj, Identifier("b"))

ProjectionParsed(kind, prefix, fol) ==
    (Done /\ toks = ProjectionToks(kind, prefix) \o fol.t)
        => ParsedOk(ProjectionExpected(kind, prefix, fol))

\* C22: x.* gives Projection(ObjectValues(x), R), x[] gives
\* Projection(Flatten(x), R) and x[*] gives Projection(x, R); in prefix
\* position x is CurrentNode; R is the AST of what follows the projection
\* (.b, [0]) and is CurrentNode when the projection is followed by nothing or
\* by a token of binding power below 10 such as `|`.
C22_ProjectionNodes ==
    \A kind \in ProjectionKinds, prefix \in BOOLEAN, fol \in Followers :
        ProjectionParsed(kind, prefix, fol)

\* what does hold: after an identifier the projection takes .b, [0] or
\* nothing as its right side, and in prefix position it takes .b, nothing, or
\* CurrentNode before | and ||
C22_ProjectionNodesOfTheTests ==
    \A kind \in ProjectionKinds, prefix \in BOOLEAN, fol \in Followers :
        (IF prefix THEN fol.rhs # Index(0) ELSE fol.op = "none")
            => ProjectionParsed(kind, prefix, fol)

\* after an identifier, a projection followed by | or || is a ParseError: the
\* operator is handed to nud
C22_InfixProjectionBeforePipe ==
    \A kind \in ProjectionKinds, fol \in Followers :
        (Done /\ fol.op # "none" /\ toks = ProjectionToks(kind, FALSE) \o fol.t)
            => (result.kind = "Err" /\ result.msg = "Unexpected nud token")

\* each expression of IdentifierLedExprs and OtherExprs parses, alone, to the
\* AST listed with it
ExprefBodiesParse ==
    \A e \in IdentifierLedExprs \cup OtherExprs : (Done /\ toks = e.t) => ParsedOk(e.ast)

\* C23: a prefix & has the lowest precedence of all operators: &e, for any
\* expression e, pipes included, parses to Expref(AST of the whole e), never
\* to an Expref nested under the operators that follow it.
C23_ExprefOfWholeExpression ==
    \A e \in IdentifierLedExprs \cup OtherExprs :
        (Done /\ toks = <<Tok("Ampersand")>> \o e.t) => ParsedOk(Expref(e.ast))

\* what does hold: &e is Expref(AST of e) when e starts with an identifier or
\* @ and is no function call with arguments
C23_ExprefOfIdentifierLedExpression ==
    \A e \in IdentifierLedExprs :
        (Done /\ toks = <<Tok("Ampersand")>> \o e.t) => ParsedOk(Expref(e.ast))

\* and for no other e of OtherExprs does &e parse
C23_ExprefOfOtherExpression ==
    \A e \in OtherExprs :
        (Done /\ toks = <<Tok("Ampersand")>> \o e.t) => result.kind \in {"Err", "Panic"}

\* the AST of a slice at place pre with follower fol
SliceExpected(pre, fol, start, stop, step) ==
    LET proj == Projection(Slice(start, stop, step),
                           IF fol = <<>> THEN CurrentNode ELSE Identifier("b"))
    IN  IF pre = <<>> THEN proj ELSE Subexpr(Identifier("a"), proj)

TerminatedAst(node, term) ==
    CASE term = "end" -> node
      [] term = "Or" -> Or(node, Identifier("d"))
      [] term = "Pipe" -> Subexpr(node, Identifier("d"))
      [] term = "closer" -> Function("f", <<node>>)
      [] term = "comma" -> Function("f", <<node, Identifier("d")>>)

\* a projection of a with right side rhs, ended by term, parses to the
\* projection with that right side under the terminator's node
RightSideAbsorbed(kind, rhs, term) ==
    (Done /\ toks = Terminated(<<Id("a")>> \o InfixProjection(kind) \o rhs.t, term))
        => ParsedOk(TerminatedAst(ProjectionAst(kind, Identifier("a"), rhs.ast), term))

\* of two projections in a row the later one is the right side of the earlier
LaterProjectionNests ==
    \A k1 \in ProjectionKinds, k2 \in {"Star", "ArrayProjection"} :
        (Done /\ toks = <<Id("a")>> \o InfixProjection(k1) \o InfixProjection(k2))
            => ParsedOk(ProjectionAst(k1, Identifier("a"),
                                      ProjectionAst(k2, CurrentNode, CurrentNode)))

TestComplexExpression ==
    (Done /\ toks = <<Id("foo"), Tok("Dot"), Tok("Star"), Tok("Dot"), Id("bar"),
                       Tok("Lbracket"), Tok("Star"), Tok("Rbracket"),
                       Tok("Lbracket"), Num(0), Tok("Rbracket"), Tok("Dot"), Id("baz"),
                       Tok("Or"), Id("bam"), Tok("Pipe"), Id("boo")>>)
        => ParsedOk(Subexpr(Or(Projection(ObjectValues(Identifier("foo")),
                                          Projection(Identifier("bar"),
                                                     Subexpr(Index(0), Identifier("baz")))),
                               Identifier("bam")),
                            Identifier("boo")))

\* C26: projections are right-associative and their right side extends over
\* the operators of higher precedence: in a chain of projections a later
\* projection becomes the right side of the earlier one, and the right side
\* of a projection absorbs the following `.` and `[...]` operators until a
\* token of lower binding power (||, |, a comma, a closer, the end) ends it;
\* foo.*.bar[*][0].baz || bam | boo is Subexpr(Or(Projection(
\* ObjectValues(foo), Projection(bar, Subexpr(Index(0), baz))), bam), boo).
C26_ProjectionsRightAssociative ==
    /\ LaterProjectionNests
    /\ \A kind \in ProjectionKinds, rhs \in RightSides, term \in Terminators :
          RightSideAbsorbed(kind, rhs, term)
    /\ TestComplexExpression

\* the right side ends in a projection with nothing after it:  .b[*]
EndsInProjection(rhs) ==
    Len(rhs.t) >= 3 /\ rhs.t[Len(rhs.t) - 1].k = "Star" /\ Last(rhs.t).k = "Rbracket"

\* what does hold: later projections nest, and a right side is absorbed when
\* the end of the expression ends it, or when ||, | or a closer ends it and it
\* does not end in a projection
C26_RightAssociativeBeforeEnd ==
    /\ LaterProjectionNests
    /\ \A kind \in ProjectionKinds, rhs \in RightSides, term \in Terminators :
          (term = "end" \/ (term # "comma" /\ ~EndsInProjection(rhs)))
              => RightSideAbsorbed(kind, rhs, term)
    /\ TestComplexExpression

\* a right side that ends in a projection is a ParseError before ||, |, a
\* closer and a comma: the terminator is handed to nud
C26_TerminatorAfterProjection ==
    \A kind \in ProjectionKinds, rhs \in RightSides, term \in Terminators \ {"end"} :
        (/\ Done /\ EndsInProjection(rhs)
         /\ toks = Terminated(<<Id("a")>> \o InfixProjection(kind) \o rhs.t, term))
            => (result.kind = "Err" /\ result.msg = "Unexpected nud token")

\* a comma after a right side that ends in `.` and an identifier, which
\* leaves two operators pending, is a misplaced comma
C26_CommaAfterRightSide ==
    \A kind \in ProjectionKinds, rhs \in RightSides :
        (/\ Done /\ Last(rhs.t).k = "Identifier"
         /\ toks = Terminated(<<Id("a")>> \o InfixProjection(kind) \o rhs.t, "comma"))
            => (result.kind = "Err" /\ result.msg = "Misplaced comma")

\* the tokens not yet consumed: the current one and those left in the stream
Unconsumed == (Len(toks) + 1 - stream) + (IF token.k = "Eof" THEN 0 ELSE 1)

\* C29: parsing terminates on every finite token stream: every iteration of
\* the main loop of expr consumes a token, pops a state or returns an error,
\* the inner loops shrink the operator stack or consume a token, and so parse
\* always reaches Ok or Err.
C29_ParseReachesOkOrErr == <>(Done /\ result.kind \in {"Ok", "Err"})

\* what does hold: parse always stops, with a result or with an abort
C29_ParseStops == <>Done

\* an iteration of expr's main loop that does not leave the loop consumes a
\* token or pops a state, and a step of the final drain that does not leave
\* it pops an operator
Progresses ==
    /\ (pc = "loop" /\ pc' = "loop") =>
          \/ Unconsumed' < Unconsumed
          \/ Unconsumed' = Unconsumed /\ Len(state_stack') < Len(state_stack)
    /\ (pc = "drain" /\ pc' = "drain") => Len(operator_stack') < Len(operator_stack)

C29_EveryIterationProgresses == [][Progresses]_vars

(***************************************************************************)
(* Claims about the registry (checked under RegSpec).                       *)
(***************************************************************************)
Evaluated == call.op = "evaluate"
Bound(name) == name \in DOMAIN functions

\* C4: evaluate with a name that is not registered returns
\* UnknownFunction(name) for every argument list, and no function body is
\* invoked.
C4_UnknownFunction ==
    (Evaluated /\ ~Bound(call.name)) =>
        /\ call.res = "Err"
        /\ call.err = UnknownFunction(call.name)
        /\ call.ran = <<>>

\* abs was deregistered and is then called with an argument its builtin
\* accepts
C4_Witness ==
    /\ Evaluated /\ call.name = "abs" /\ ~Bound("abs")
    /\ call.args = <<VNumber(1)>>
    /\ Bound("avg")

\* the binding of a name in a registry: Some(f) or None
Binding(fns, name) == IF name \in DOMAIN fns THEN Some(fns[name]) ELSE None

\* an evaluate answered by function f: its body ran, or its signature
\* rejected the arguments
AnsweredBy(c, f) ==
    \/ c.res = "Ok" /\ c.ran = <<f.id>>
    \/ c.res = "Err" /\ c.ran = <<>> /\ c.err[1] # "UnknownFunction"
       /\ c.err = validate(f.signature, c.args)

\* C5: the registry is a map from names to functions under every sequence
\* of operations: register binds the name to the function given, replacing
\* an earlier binding (a builtin's too); deregister unbinds the name and
\* returns the function that was bound, or None; evaluate is answered by the
\* function bound to the name, or by UnknownFunction when none is; and no
\* operation on one name changes the binding of another.
C5_RegistryIsAMap ==
    [][ /\ call'.op = "register" =>
             Binding(functions', call'.name) = call'.fn
        /\ call'.op = "deregister" =>
             /\ Binding(functions', call'.name) = None
             /\ call'.ret = Binding(functions, call'.name)
        /\ call'.op = "evaluate" =>
             /\ functions' = functions
             /\ IF Bound(call'.name)
                THEN AnsweredBy(call', functions[call'.name])
                ELSE call'.err = UnknownFunction(call'.name)
        /\ \A n \in CallNames :
             n # call'.name => Binding(functions', n) = Binding(functions, n)
      ]_vars

\* abs, a builtin, was replaced by a custom function, which then answered
C5_Witness ==
    /\ Evaluated /\ call.name = "abs" /\ call.args = <<>>
    /\ call.ran = <<"closure3">>
    /\ Bound("avg")

\* whether a call with `actual` arguments meets the arity of sig
ArityMet(sig, actual) ==
    \/ sig.variadic # None /\ actual >= Len(sig.inputs)
    \/ sig.variadic = None /\ actual = Len(sig.inputs)

ArityError(c) == c.res = "Err" /\ c.err[1] \in {"NotEnoughArguments", "TooManyArguments"}

\* C6: for a signature with n inputs a call with `actual` arguments passes
\* the arity check iff (variadic and actual >= n) or (not variadic and
\* actual = n); otherwise the error is NotEnoughArguments{n, actual} when
\* actual < n and TooManyArguments{n, actual} when actual > n, whatever the
\* argument values are.
C6_ArityValidation ==
    (Evaluated /\ Bound(call.name)) =>
        LET sig == functions[call.name].signature
            n == Len(sig.inputs)
            actual == Len(call.args)
        IN  /\ ~ArityError(call) <=> ArityMet(sig, actual)
            /\ (~ArityMet(sig, actual) /\ actual < n) =>
                   call.err = NotEnoughArguments(n, actual)
            /\ (~ArityMet(sig, actual) /\ actual > n) =>
                   call.err = TooManyArguments(n, actual)
            /\ ~ArityMet(sig, actual) => call.ran = <<>>

\* a two-input builtin called with three arguments, and a variadic one
\* called with none
C6_Witness ==
    \/ /\ Evaluated /\ call.name = "contains" /\ Len(call.args) = 3
       /\ Bound("contains") /\ call.err = TooManyArguments(2, 3)
    \/ /\ Evaluated /\ call.name = "merge" /\ call.args = <<>>
       /\ Bound("merge") /\ call.err = NotEnoughArguments(1, 0)

\* the claim's reading of a match of value v against argument type t
RECURSIVE Matches(_, _)
Matches(t, v) ==
    CASE t = TAny -> TRUE
      [] t = TNull -> v = VNull
      [] t = TString -> v[1] = "string"
      [] t = TNumber -> v[1] = "number"
      [] t = TBool -> v[1] = "boolean"
      [] t = TObject -> v[1] = "object"
      [] t = TArray -> v[1] = "array"
      [] t = TExpref -> v[1] = "expref"
      [] t[1] = "TypedArray" ->
           v[1] = "array" /\ \A i \in DOMAIN v[2] : Matches(t[2], v[2][i])
      [] t[1] = "Union" -> \E i \in DOMAIN t[2] : Matches(t[2][i], v)

\* the names spec 4.4 renders the argument types of the signatures to
RenderedName(t) ==
    CASE t = TAny -> "any"
      [] t = TNull -> "null"
      [] t = TString -> "string"
      [] t = TNumber -> "number"
      [] t = TBool -> "boolean"
      [] t = TObject -> "object"
      [] t = TArray -> "array"
      [] t = TExpref -> "expref"
      [] t = array_number -> "array[number]"
      [] t = array_string -> "array[string]"
      [] t = Union(<<TString, TArray>>) -> "string|array"
      [] t = Union(<<TArray, TObject, TString>>) -> "array|object|string"
      [] t = Union(<<array_string, array_number>>) -> "array[string]|array[number]"
      [] t = Union(<<TArray, TString>>) -> "array|string"
      [] t = Union(<<TString, TNull>>) -> "string|null"
      [] t = Union(<<TObject, TArray, TBool, TNumber, TString, TNull>>) ->
           "object|array|boolean|number|string|null"

\* the type argument k (from 0) is checked against
CheckedAgainst(sig, k) ==
    IF k < Len(sig.inputs) THEN sig.inputs[k + 1] ELSE sig.variadic[1]

SetMin(S) == CHOOSE m \in S : \A x \in S : m <= x

\* C7: when the arity is valid, argument k is checked against inputs[k] if
\* k < len(inputs) and against the variadic type otherwise; validation
\* succeeds iff every argument matches, and otherwise fails with InvalidType
\* whose position is the smallest index of a non-matching argument, whose
\* expected is the rendered name of that argument's type and whose actual is
\* the type name of the value.
C7_TypeValidation ==
    (Evaluated /\ Bound(call.name)
       /\ ArityMet(functions[call.name].signature, Len(call.args))) =>
        LET sig == functions[call.name].signature
            bad == {k \in 0..(Len(call.args) - 1) :
                       ~Matches(CheckedAgainst(sig, k), call.args[k + 1])}
        IN  /\ call.res = "Ok" <=> bad = {}
            /\ bad # {} =>
                 call.err = InvalidType(RenderedName(CheckedAgainst(sig, SetMin(bad))),
                                        call.args[SetMin(bad) + 1][1],
                                        SetMin(bad))

\* abs on a string, and a variadic argument of the wrong type behind two
\* good ones
C7_Witness ==
    \/ /\ Evaluated /\ call.name = "abs" /\ Bound("abs")
       /\ functions["abs"] = Builtin("abs")
       /\ call.args = <<VString("a")>>
       /\ call.err = InvalidType("number", "string", 0)
    \/ /\ Evaluated /\ call.name = "foo" /\ Bound("foo")
       /\ functions["foo"].id = "closure1"
       /\ call.args = <<VNumber(1), VString("a"), VNumber(1)>>
       /\ call.err = InvalidType("string", "number", 2)

\* C8: for every function reached through the registry, builtin or custom,
\* the signature is validated before the body: if arity or type validation
\* fails the body is not invoked and the validation error is the result; the
\* body runs only with arguments that satisfy the signature.
C8_ValidationBeforeBody ==
    (Evaluated /\ Bound(call.name)) =>
        LET f == functions[call.name]
            v == validate(f.signature, call.args)
        IN  /\ v # Valid => (call.ran = <<>> /\ call.res = "Err" /\ call.err = v)
            /\ call.ran # <<>> => (v = Valid /\ call.ran = <<f.id>>)
            /\ call.ran # <<>> =>
                 /\ ArityMet(f.signature, Len(call.args))
                 /\ \A k \in 0..(Len(call.args) - 1) :
                      Matches(CheckedAgainst(f.signature, k), call.args[k + 1])

\* a custom function called with an argument its signature rejects
C8_Witness ==
    /\ Evaluated /\ call.name = "foo" /\ Bound("foo")
    /\ functions["foo"].id = "closure2"
    /\ call.args = <<VArray(<<VNumber(1), VString("a")>>), VNull>>
    /\ call.ran = <<>>
    /\ call.err = InvalidType("array[number]", "array", 0)

(***************************************************************************)
(* Claims about the builtins (checked under FnSpec).                        *)
(***************************************************************************)
\* the keys and the values of entries, in their order
KeysInOrder(entries) == [i \in DOMAIN entries |-> VString(entries[i][1])]
ValuesInOrder(entries) == [i \in DOMAIN entries |-> entries[i][2]]

\* the insertion sequences of the arguments one after the other
RECURSIVE Flat(_)
Flat(ins) == IF ins = <<>> THEN <<>> ELSE ins[1] \o Flat(Tail(ins))

\* the keys of entries in the order of their first insertion
RECURSIVE FirstInsertedKeys(_, _)
FirstInsertedKeys(seen, entries) ==
    IF entries = <<>> THEN seen
    ELSE IF \E i \in DOMAIN seen : seen[i] = VString(entries[1][1])
    THEN FirstInsertedKeys(seen, Tail(entries))
    ELSE FirstInsertedKeys(Append(seen, VString(entries[1][1])), Tail(entries))

\* C13: keys(o) and values(o) list the entries of o in the order they were
\* inserted, and the object merge returns iterates its keys in the order of
\* their first insertion across the arguments.
C13_InsertionOrder ==
    (Evaluated /\ call.res = "Ok") =>
        /\ call.name = "keys" => call.ret = Some(VArray(KeysInOrder(inserted[1])))
        /\ call.name = "values" => call.ret = Some(VArray(ValuesInOrder(inserted[1])))
        /\ call.name = "merge" =>
             KeysInOrder(call.ret[1][2]) = FirstInsertedKeys(<<>>, Flat(inserted))

\* what the code does instead: keys, values and the result of merge are in
\* ascending key order
C13_AscendingKeyOrder ==
    (Evaluated /\ call.res = "Ok" /\ call.name \in {"keys", "values", "merge"}) =>
        LET entries == IF call.name = "merge" THEN call.ret[1][2] ELSE call.args[1][2]
        IN  /\ \A i \in DOMAIN entries, j \in DOMAIN entries :
                 i < j => str_lt(entries[i][1], entries[j][1])
            /\ call.name = "keys" => call.ret = Some(VArray(KeysInOrder(entries)))
            /\ call.name = "values" => call.ret = Some(VArray(ValuesInOrder(entries)))

\* the keys of an object and the value it holds for one of them
KeysOf(obj) == {obj[2][i][1] : i \in DOMAIN obj[2]}
ValueIn(obj, k) == obj[2][CHOOSE i \in DOMAIN obj[2] : obj[2][i][1] = k][2]
SetMax(S) == CHOOSE m \in S : \A x \in S : x <= m

\* C14: merge(o1, ..., on) is a right-biased union: the keys of the result
\* are the keys of the arguments, no key twice, each with its value in the
\* rightmost argument that holds it; merge(o) is o.
C14_MergeRightBiased ==
    (/\ Evaluated /\ call.name = "merge" /\ Len(call.args) >= 1
     /\ \A i \in DOMAIN call.args : call.args[i][1] = "object") =>
        /\ call.res = "Ok"
        /\ LET out == call.ret[1]
           IN  /\ out[1] = "object"
               /\ KeysOf(out) = UNION {KeysOf(call.args[i]) : i \in DOMAIN call.args}
               /\ Cardinality(KeysOf(out)) = Len(out[2])
               /\ \A k \in KeysOf(out) :
                    ValueIn(out, k) =
                      ValueIn(call.args[SetMax({i \in DOMAIN call.args :
                                                   k \in KeysOf(call.args[i])})], k)
               /\ Len(call.args) = 1 => out = call.args[1]

\* {b: 1, a: 1} merged with {a: 2}
C14_Witness ==
    /\ Evaluated /\ call.name = "merge"
    /\ inserted = << << <<"b", VNumber(1)>>, <<"a", VNumber(1)>> >>, << <<"a", VNumber(2)>> >> >>
    /\ call.ret = Some(VObject(<< <<"a", VNumber(2)>>, <<"b", VNumber(1)>> >>))

\* the sum of an array of integers
RECURSIVE SumOf(_)
SumOf(vals) == IF vals = <<>> THEN 0 ELSE vals[1][2] + SumOf(Tail(vals))

\* C15: avg of an empty array is Null; avg of a non-empty array of numbers
\* is the number sum / length.
C15_AvgOfEmptyIsNull ==
    (Evaluated /\ call.name = "avg" /\ Len(call.args) = 1
       /\ is_valid(array_number, call.args[1])) =>
        LET vals == call.args[1][2]
        IN  /\ call.res = "Ok"
            /\ vals = <<>> => call.ret = Some(VNull)
            /\ vals # <<>> =>
                 LET q == call.ret[1]
                 IN  /\ q[1] = "number"
                     /\ Len(q) = 2 => q[2] * Len(vals) = SumOf(vals)
                     /\ Len(q) = 3 => (q[3] > 0 /\ q[2] * Len(vals) = SumOf(vals) * q[3])

\* the part of C15 the code meets: the mean of a non-empty array
C15_AvgOfNonEmpty ==
    (Evaluated /\ call.name = "avg" /\ Len(call.args) = 1
       /\ is_valid(array_number, call.args[1]) /\ call.args[1][2] # <<>>) =>
        LET vals == call.args[1][2]
            q == call.ret[1]
        IN  /\ call.res = "Ok"
            /\ q[1] = "number"
            /\ Len(q) = 2 => q[2] * Len(vals) = SumOf(vals)
            /\ Len(q) = 3 => (q[3] > 0 /\ q[2] * Len(vals) = SumOf(vals) * q[3])

\* a call of max_by, min_by or sort_by on a non-empty array with an
\* expression reference
ByCall ==
    /\ Evaluated /\ call.name \in {"max_by", "min_by", "sort_by"}
    /\ Len(call.args) = 2
    /\ call.args[1][1] = "array" /\ call.args[1][2] # <<>>
    /\ call.args[2][1] = "expref"

\* the type the expression yields on element i (from 0) of the array
KeyType(i) == get_type(interpret(call.args[1][2][i + 1], call.args[2][2]))

\* the offending elements: element 0 when its key is neither string nor
\* number, a later element when its key's type is not that of element 0
Offending ==
    {i \in 0..(Len(call.args[1][2]) - 1) :
        IF i = 0 THEN KeyType(0) \notin {"string", "number"} ELSE KeyType(i) # KeyType(0)}

\* C16: max_by, min_by and sort_by on a non-empty array fail with
\* InvalidReturnType when an element offends, and the invocation field is the
\* index of the first offending element: 0 for the first element, i for
\* element i.
C16_InvocationIsIndex ==
    (ByCall /\ Offending # {}) =>
        /\ call.res = "Err"
        /\ call.err[1] = "InvalidReturnType"
        /\ call.err[5] = SetMin(Offending)

\* the part of C16 the code meets: an element other than the first offends
C16_LaterElementIsIndex ==
    (ByCall /\ Offending # {} /\ 0 \notin Offending) =>
        /\ call.res = "Err"
        /\ call.err[1] = "InvalidReturnType"
        /\ call.err[5] = SetMin(Offending)

\* how often x occurs in a sequence
Occurrences(seq, x) == Cardinality({i \in DOMAIN seq : seq[i] = x})

\* the key sort or sort_by orders element x by
SortKey(x) == IF call.name = "sort" THEN x ELSE interpret(x, call.args[2][2])

\* C17: sort and sort_by return a permutation of the input array in
\* ascending order of the keys, and elements with equal keys keep the
\* relative order they have in the input; the empty array is returned
\* unchanged.
C17_SortIsStable ==
    (Evaluated /\ call.name \in {"sort", "sort_by"} /\ call.res = "Ok") =>
        LET in == call.args[1][2]
            out == call.ret[1][2]
        IN  /\ call.ret[1][1] = "array"
            /\ Len(out) = Len(in)
            /\ \A i \in DOMAIN in :
                 Occurrences(out, in[i]) = Occurrences(in, in[i])
            /\ \A i \in DOMAIN out, j \in DOMAIN out :
                 i < j => ~var_lt(SortKey(out[j]), SortKey(out[i]))
            /\ \A n \in DOMAIN in :
                 LET SameKey(e) == SortKey(e) = SortKey(in[n])
                 IN  SelectSeq(out, SameKey) = SelectSeq(in, SameKey)
            /\ in = <<>> => out = <<>>

\* [{a: 2}, {a: 1, b: 1}, {a: 1}] sorted by &a
C17_Witness ==
    /\ Evaluated /\ call.name = "sort_by"
    /\ call.args = << VArray(<< ObjectOf(<< <<"a", VNumber(2)>> >>),
                               ObjectOf(<< <<"a", VNumber(1)>>, <<"b", VNumber(1)>> >>),
                               ObjectOf(<< <<"a", VNumber(1)>> >>) >>),
                      VExpref(Identifier("a")) >>
    /\ call.ret = Some(VArray(<< ObjectOf(<< <<"a", VNumber(1)>>, <<"b", VNumber(1)>> >>),
                                 ObjectOf(<< <<"a", VNumber(1)>> >>),
                                 ObjectOf(<< <<"a", VNumber(2)>> >>) >>))


\* the Number a string denotes: its JSON value when that is a number
DenotedNumber(s) ==
    IF from_json(s) # None /\ from_json(s)[1][1] = "number" THEN from_json(s) ELSE None

\* C24: to_number returns a Number or Null for every argument: a Number is
\* returned unchanged, a String is returned as the Number it denotes when it
\* is a JSON number, and every other input (a string that is not a JSON
\* number, strings holding other JSON such as true, null, "a" or [1]
\* included, and every value that is neither string nor number) gives Null.
C24_ToNumberIsNumberOrNull ==
    (Evaluated /\ call.name = "to_number" /\ Len(call.args) = 1) =>
        LET v == call.args[1]
        IN  /\ call.res = "Ok"
            /\ call.ret[1][1] \in {"number", "null"}
            /\ call.ret = CASE v[1] = "number" -> Some(v)
                             [] v[1] = "string" /\ DenotedNumber(v[2]) # None ->
                                  DenotedNumber(v[2])
                             [] OTHER -> Some(VNull)

\* what does hold: a Number is returned unchanged, a string that is JSON is
\* returned as the value it denotes, whatever its type, and everything else
\* gives Null
C24_ToNumberIsJsonValue ==
    (Evaluated /\ call.name = "to_number" /\ Len(call.args) = 1) =>
        LET v == call.args[1]
        IN  /\ call.res = "Ok"
            /\ call.ret = CASE v[1] = "number" -> Some(v)
                             [] v[1] = "string" /\ from_json(v[2]) # None -> from_json(v[2])
                             [] OTHER -> Some(VNull)

\* C28: no builtin aborts after validation: for each of the 26 default
\* functions and every argument list that passes its signature validation
\* the body returns Ok or a RuntimeError; it reaches no unwrap() on a value of
\* another type, no unreachable!() arm and no index out of range, empty
\* arrays and empty strings included.
C28_NoBuiltinAborts ==
    (/\ Evaluated /\ call.name \in BuiltinNames
     /\ validate(BuiltinSignature(call.name), call.args) = Valid)
        => (call.res \in {"Ok", "Err"} /\ ~body_aborts(call.name, call.args))

\* bodies have run on an empty array and on an empty string
C28_Witness ==
    /\ Evaluated /\ call.res = "Ok" /\ call.ran # <<>>
    /\ \/ call.name = "max" /\ call.args = <<VArray(<<>>)>>
       \/ call.name = "reverse" /\ call.args = <<VString("")>>
       \/ call.name = "contains" /\ call.args = <<VString(""), VNull>>

\* the key of element i (from 1) of the array of a max_by or min_by call
KeyOf(i) == interpret(call.args[1][2][i], call.args[2][2])

\* key x is better than key y: greater for max_by, less for min_by
Better(x, y) == IF call.name = "max_by" THEN var_gt(x, y) ELSE var_lt(x, y)

\* the indices of the elements no other element has a better key than
Extremes ==
    {i \in DOMAIN call.args[1][2] :
        \A j \in DOMAIN call.args[1][2] : ~Better(KeyOf(j), KeyOf(i))}

\* C30: max_by and min_by on a non-empty array whose keys are all Strings or
\* all Numbers return an element of the array, the element itself and not its
\* key, whose key is greatest (least) among all keys; of several elements
\* with that key the one with the smallest index is returned; on an empty
\* array they return Null.
C30_MaxByReturnsFirstExtremeElement ==
    /\ (ByCall /\ call.name \in {"max_by", "min_by"} /\ Offending = {}) =>
          /\ call.res = "Ok"
          /\ Extremes # {}
          /\ call.ret = Some(call.args[1][2][SetMin(Extremes)])
    /\ (/\ Evaluated /\ call.name \in {"max_by", "min_by"} /\ Len(call.args) = 2
        /\ call.args[1] = VArray(<<>>) /\ call.args[2][1] = "expref") =>
          (call.res = "Ok" /\ call.ret = Some(VNull))

\* min_by(&a) has returned the first of two elements that share the least
\* key, an element that is not its own key
C30_Witness ==
    /\ ByCall /\ call.name = "min_by" /\ call.res = "Ok"
    /\ call.args[2] = VExpref(Identifier("a"))
    /\ call.args[1][2] = << ObjectOf(<< <<"a", VNumber(2)>> >>),
                            ObjectOf(<< <<"a", VNumber(1)>> >>),
                            ObjectOf(<< <<"a", VNumber(1)>>, <<"b", VNumber(1)>> >>) >>
    /\ call.ret = Some(ObjectOf(<< <<"a", VNumber(1)>> >>))

(***************************************************************************)
(* Claims about ParseError (checked under ErrSpec).                         *)
(***************************************************************************)
Located == call.op = "ParseError::new"

\* the line breaks before byte pos of expr
BreaksBefore(expr, pos) == {i \in 1..pos : expr[i] = NL}

\* the byte offset at which the line of byte pos starts
LineStart(expr, pos) == SetMax(BreaksBefore(expr, pos) \cup {0})

\* the column of the ^ in the last line of the snippet
PointerColumn(buff) ==
    LET breaks == {i \in 1..(Len(buff) - 1) : buff[i] = NL}
    IN  Len(buff) - 2 - SetMax(breaks \cup {0})

\* C27: the line and column of a ParseError locate the byte offset pos of the
\* error in the expression: line is the number of line breaks before pos and
\* col is pos minus the byte offset at which that line starts, on one line
\* and on several alike; the ^ of the rendered snippet is at that column.
C27_LineAndColumnLocatePos ==
    Located =>
        LET expr == call.args[1]
            pos == call.args[2]
            e == call.ret[1]
        IN  /\ e.line = Cardinality(BreaksBefore(expr, pos))
            /\ e.col = pos - LineStart(expr, pos)
            /\ Last(e.buff) = NL /\ e.buff[Len(e.buff) - 1] = "^"
            /\ PointerColumn(e.buff) = pos - LineStart(expr, pos)

\* what does hold: the line is the number of line breaks before pos, the ^ is
\* at the column reported, and on the first line the column is pos
C27_LineAndFirstLineColumn ==
    Located =>
        LET expr == call.args[1]
            pos == call.args[2]
            e == call.ret[1]
        IN  /\ e.line = Cardinality(BreaksBefore(expr, pos))
            /\ Last(e.buff) = NL /\ e.buff[Len(e.buff) - 1] = "^"
            /\ PointerColumn(e.buff) = e.col
            /\ e.line = 0 => e.col = pos - LineStart(expr, pos)

\* on a later line the column counts back from the last character of the
\* line: it is the line's length less one less the claimed column, or 0
C27_LaterLineColumnIsMirrored ==
    (Located /\ call.ret[1].line > 0) =>
        LET expr == call.args[1]
            pos == call.args[2]
            e == call.ret[1]
            mirrored == Len(lines(expr)[e.line + 1]) - 1 - (pos - LineStart(expr, pos))
        IN  e.col = IF mirrored >= 0 THEN mirrored ELSE 0

====
